---------------------------- MODULE Spec2Model ----------------------------
(***************************************************************************)
(* A model of the performance director of Chorus Ex Machina                *)
(* (chorus/src/director.rs) with the syllable segmenter it calls           *)
(* (chorus/src/syllable.rs).                                               *)
(*                                                                         *)
(* Representation.                                                         *)
(*  - A string of the program is a sequence of symbols, each symbol a      *)
(*    one-character string; the affricates that Syllable::build writes as  *)
(*    one character are the symbols "tS" and "dZ".                         *)
(*  - An f32 is a fixed-point integer in thousandths (One = 1.0);          *)
(*    products are divided back with \div.  Interpolation weights are in   *)
(*    thousandths too.                                                     *)
(*  - A vocal tract shape is not a vector of areas but a record naming     *)
(*    the phoneme shape it was built from and the blends applied to it;    *)
(*    the per-voice random jitter of add_shape_transition is left out, so  *)
(*    the per-voice copies differ in the program and agree here.           *)
(*  - The Director is one record, `director`, with the fields of the       *)
(*    struct; the state of each Voice that the director sets is the        *)
(*    record director.voices[i].                                           *)
(***************************************************************************)
EXTENDS Integers, Sequences, FiniteSets, TLC

One == 10 * 10 * 10

Max(a, b) == IF a >= b THEN a ELSE b

Min(a, b) == IF a <= b THEN a ELSE b

Abs(a) == IF a >= 0 THEN a ELSE -a

\* a*b for two fixed-point numbers (the product is split so that no
\* intermediate value leaves the range of 32-bit integers)
Mul(a, b) == (a \div One) * b + ((a % One) * b) \div One

\* `(x as i64)` of a fixed-point x: truncation toward zero
Trunc(x) == IF x >= 0 THEN x \div One ELSE -((-x) \div One)

Range(s) == {s[i] : i \in DOMAIN s}

Repeat(x, n) == [i \in 1..n |-> x]

\* vec[from..to] for 1-based inclusive bounds; empty when to < from
Slice(s, from, to) == [i \in 1..Max(0, to - from + 1) |-> s[from + i - 1]]

\* the element of a set of one element.  The({e : v \in {x}}) is e with v
\* naming the value of x: the form given here to a local variable that is
\* read several times
The(S) == CHOOSE x \in S : TRUE

(***************************************************************************)
(* Syllable segmentation (chorus/src/syllable.rs)                          *)
(***************************************************************************)
VOWELS ==
  {"a", "e", "i", "l", "m", "n", "o", "u", "y", "A", "E", "I", "N", "O",
   "U", "V", "Y", "2", "3", "9", "&", "{", "@"}

CONSONANTS ==
  {"b", "d", "f", "g", "h", "j", "k", "p", "r", "s", "t", "v", "w", "x",
   "z", "C", "D", "S", "T", "Z", "4", "dZ", "tS"}

\* str::replace of the two-character pattern <<a, b>> by the symbol to,
\* scanning left to right without overlap
RECURSIVE ReplacePair(_, _, _, _)
ReplacePair(s, a, b, to) ==
  IF Len(s) = 0 THEN <<>>
  ELSE IF Len(s) >= 2 /\ s[1] = a /\ s[2] = b
       THEN <<to>> \o ReplacePair(SubSeq(s, 3, Len(s)), a, b, to)
       ELSE <<s[1]>> \o ReplacePair(Tail(s), a, b, to)

\* str::replace("r", "4r")
RECURSIVE ReplaceR(_)
ReplaceR(s) ==
  IF Len(s) = 0 THEN <<>>
  ELSE (IF s[1] = "r" THEN <<"4", "r">> ELSE <<s[1]>>) \o ReplaceR(Tail(s))

\* Syllable::build without the replacements of line 40
SubstituteNothing(sampa) == sampa

Substitute(sampa) ==
  ReplaceR(ReplacePair(ReplacePair(sampa, "t", "S", "tS"), "d", "Z", "dZ"))

ScanStart ==
  [initial_consonants |-> <<>>, vowels |-> <<>>, final_consonants |-> <<>>,
   stage |-> 0, explicit_main |-> 0, has_explicit_main |-> FALSE,
   err |-> "none"]

\* the loop body taking a vowel that comes after a final consonant as one
\* more vowel, without the error of line 59
ScanCharAllowingLateVowel(st, c) ==
  IF c \in CONSONANTS
  THEN IF st.stage = 0
       THEN [st EXCEPT !.initial_consonants = Append(@, c)]
       ELSE [st EXCEPT !.final_consonants = Append(@, c), !.stage = 2]
  ELSE IF c \in VOWELS
  THEN [st EXCEPT !.vowels = Append(@, c), !.stage = 1]
  ELSE IF c = "-"
  THEN IF Len(st.vowels) = 0 \/ st.stage = 2
       THEN [st EXCEPT !.err = "- must follow a vowel"]
       ELSE IF st.has_explicit_main
       THEN [st EXCEPT !.err = "Only one sound can be marked as the main vowel"]
       ELSE [st EXCEPT !.explicit_main = Len(st.vowels),
                       !.has_explicit_main = TRUE]
  ELSE [st EXCEPT !.err = "Illegal character"]

\* the loop body letting a later '-' replace an earlier one, without the
\* error of line 69
ScanCharAllowingSecondMarker(st, c) ==
  IF c \in CONSONANTS
  THEN IF st.stage = 0
       THEN [st EXCEPT !.initial_consonants = Append(@, c)]
       ELSE [st EXCEPT !.final_consonants = Append(@, c), !.stage = 2]
  ELSE IF c \in VOWELS
  THEN IF st.stage = 2
       THEN [st EXCEPT !.err = "Vowel after final consonant"]
       ELSE [st EXCEPT !.vowels = Append(@, c), !.stage = 1]
  ELSE IF c = "-"
  THEN IF Len(st.vowels) = 0 \/ st.stage = 2
       THEN [st EXCEPT !.err = "- must follow a vowel"]
       ELSE [st EXCEPT !.explicit_main = Len(st.vowels),
                       !.has_explicit_main = TRUE]
  ELSE [st EXCEPT !.err = "Illegal character"]

\* one iteration of the loop over the characters; explicit_main is the
\* 1-based index of the marked vowel
ScanChar(st, c) ==
  IF c \in CONSONANTS
  THEN IF st.stage = 0
       THEN [st EXCEPT !.initial_consonants = Append(@, c)]
       ELSE [st EXCEPT !.final_consonants = Append(@, c), !.stage = 2]
  ELSE IF c \in VOWELS
  THEN IF st.stage = 2
       THEN [st EXCEPT !.err = "Vowel after final consonant"]
       ELSE [st EXCEPT !.vowels = Append(@, c), !.stage = 1]
  ELSE IF c = "-"
  THEN IF Len(st.vowels) = 0 \/ st.stage = 2
       THEN [st EXCEPT !.err = "- must follow a vowel"]
       ELSE IF st.has_explicit_main
       THEN [st EXCEPT !.err = "Only one sound can be marked as the main vowel"]
       ELSE [st EXCEPT !.explicit_main = Len(st.vowels),
                       !.has_explicit_main = TRUE]
  ELSE [st EXCEPT !.err = "Illegal character"]

RECURSIVE Scan(_, _)
Scan(st, s) ==
  IF Len(s) = 0 \/ st.err # "none" THEN st
  ELSE Scan(ScanChar(st, s[1]), Tail(s))

\* the main vowel left where line 84 puts it, without the loop
PickMainUnmoved(vowels, i, main) == main

\* the loop that picks the main vowel when none is marked; main and i are
\* 1-based
RECURSIVE PickMain(_, _, _)
PickMain(vowels, i, main) ==
  IF i > Len(vowels) THEN main
  ELSE LET c == vowels[i]
           m == vowels[main]
       IN  IF c = "A" \/ c = "a" \/ m = "m" \/ m = "n" \/ m = "N"
           THEN PickMain(vowels, i + 1, i)
           ELSE IF (m = "l" \/ m = "3") /\ c # "m" /\ c # "n" /\ c # "N"
           THEN PickMain(vowels, i + 1, i)
           ELSE PickMain(vowels, i + 1, main)

\* Syllable::build picking the main vowel as if no vowel were marked
SyllableBuildIgnoringMarker(sampa) ==
  LET st == Scan(ScanStart, Substitute(sampa))
  IN  IF st.err # "none" THEN [ok |-> FALSE, err |-> st.err]
      ELSE IF Len(st.vowels) = 0
      THEN [ok |-> FALSE, err |-> "No vowel in syllable"]
      ELSE LET main == PickMain(st.vowels, 1,
                                IF Len(st.vowels) = 1 THEN 1 ELSE 2)
           IN  [ok |-> TRUE,
                syllable |->
                  [initial_consonants |-> st.initial_consonants,
                   initial_vowels |-> Slice(st.vowels, 1, main - 1),
                   main_vowel |-> st.vowels[main],
                   final_vowels |-> Slice(st.vowels, main + 1, Len(st.vowels)),
                   final_consonants |-> st.final_consonants]]

\* Syllable::build giving a syllable of the neutral vowel alone, instead of
\* the error of line 82, when the spelling has no vowel
SyllableBuildDefaultingVowel(sampa) ==
  LET st == Scan(ScanStart, Substitute(sampa))
  IN  IF st.err # "none" THEN [ok |-> FALSE, err |-> st.err]
      ELSE IF Len(st.vowels) = 0
      THEN [ok |-> TRUE,
            syllable |->
              [initial_consonants |-> st.initial_consonants,
               initial_vowels |-> <<>>, main_vowel |-> "@",
               final_vowels |-> <<>>, final_consonants |-> <<>>]]
      ELSE LET main == IF st.has_explicit_main THEN st.explicit_main
                       ELSE PickMain(st.vowels, 1,
                                     IF Len(st.vowels) = 1 THEN 1 ELSE 2)
           IN  [ok |-> TRUE,
                syllable |->
                  [initial_consonants |-> st.initial_consonants,
                   initial_vowels |-> Slice(st.vowels, 1, main - 1),
                   main_vowel |-> st.vowels[main],
                   final_vowels |-> Slice(st.vowels, main + 1, Len(st.vowels)),
                   final_consonants |-> st.final_consonants]]

\* Syllable::build: [ok |-> FALSE, err] or [ok |-> TRUE, syllable]
SyllableBuild(sampa) ==
  LET st == Scan(ScanStart, Substitute(sampa))
  IN  IF st.err # "none" THEN [ok |-> FALSE, err |-> st.err]
      ELSE IF Len(st.vowels) = 0
      THEN [ok |-> FALSE, err |-> "No vowel in syllable"]
      ELSE LET main == IF st.has_explicit_main THEN st.explicit_main
                       ELSE PickMain(st.vowels, 1,
                                     IF Len(st.vowels) = 1 THEN 1 ELSE 2)
           IN  [ok |-> TRUE,
                syllable |->
                  [initial_consonants |-> st.initial_consonants,
                   initial_vowels |-> Slice(st.vowels, 1, main - 1),
                   main_vowel |-> st.vowels[main],
                   final_vowels |-> Slice(st.vowels, main + 1, Len(st.vowels)),
                   final_consonants |-> st.final_consonants]]

(***************************************************************************)
(* The phoneme library (chorus/src/phonemes.rs is not among the sources;   *)
(* modelled from the interface the specification gives in section 6 and    *)
(* from the fields director.rs reads).  Every symbol the segmenter accepts *)
(* has an entry.                                                           *)
(***************************************************************************)
\* Option<T>: None is the empty sequence, Some(x) the sequence of x alone
None == <<>>

Some(x) == <<x>>

is_some(o) == Len(o) > 0

unwrap(o) == o[1]

NasalVowels == {"m", "n", "N"}

VoicedConsonants ==
  {"b", "d", "g", "j", "r", "v", "w", "z", "D", "Z", "4", "dZ"}

MonoConsonants == {"k", "p", "t"}

SampledConsonants == {"s", "S"}

is_voiced_consonant(c) == c \in VoicedConsonants

get_vowel_shape(c) ==
  IF c \in VOWELS THEN Some([base |-> <<"vowel", c>>, dark |-> 0, high |-> 0])
  ELSE None

get_nasal_coupling(c) == IF c \in NasalVowels THEN One \div 2 ELSE 0

get_amplification(c) ==
  IF c \in NasalVowels THEN (One * 8) \div 10
  ELSE IF c \in {"i", "u", "y"} THEN (One * 13) \div 10
  ELSE One

\* a midpoint shape exists for pairs of dissimilar (open/closed) vowels
get_intermediate_shape(vowel1, vowel2) ==
  IF \/ (vowel1 \in {"a", "A", "o", "O"} /\ vowel2 \in {"i", "I", "e", "y"})
     \/ (vowel2 \in {"a", "A", "o", "O"} /\ vowel1 \in {"i", "I", "e", "y"})
  THEN Some([base |-> <<"between", vowel1, vowel2>>, dark |-> 0, high |-> 0])
  ELSE None

\* time_scale is in hundredths
ScaleTime(t, time_scale) == (t * time_scale) \div 100

\* the template of a consonant; sample_length > 0 when the library has
\* recorded noise for it (all recordings of one consonant as long)
get_consonant(c, adjacent_vowel, is_final, time_scale) ==
  IF c \notin CONSONANTS THEN None
  ELSE LET voiced == c \in VoicedConsonants
           mono == c \in MonoConsonants
       IN  Some(
           [symbol |-> c,
            start |-> 0,
            delay |-> ScaleTime(IF mono THEN 1500 ELSE 1000, time_scale),
            transition_time |->
              ScaleTime(IF voiced THEN 2000 ELSE IF mono THEN 1000 ELSE 1500,
                        time_scale),
            on_time |->
              ScaleTime(IF voiced THEN 1000 ELSE IF mono THEN 200 ELSE 1500,
                        time_scale),
            off_time |->
              ScaleTime(IF voiced THEN 1000 ELSE IF mono THEN 800 ELSE 1500,
                        time_scale),
            volume |-> One \div 10,
            voiced |-> voiced,
            mono |-> mono,
            sample_length |-> IF c \in SampledConsonants THEN 2500 ELSE 0,
            sample_indices |-> 0])

get_consonant_shape(consonant, vowel) ==
  IF vowel \in VOWELS
  THEN Some([base |-> <<"consonant", consonant.symbol, vowel>>,
             dark |-> 0, high |-> 0])
  ELSE None

(***************************************************************************)
(* Numeric helpers of the director                                         *)
(***************************************************************************)
\* 2^(k/12) for k in 0..11, in thousandths
SemitoneRatio ==
  <<1000, 1059, 1122, 1189, 1260, 1335, 1414, 1498, 1587, 1682, 1782, 1888>>

RECURSIVE Pow2(_)
Pow2(n) == IF n <= 0 THEN 1 ELSE 2 * Pow2(n - 1)

\* f32::powf(2.0, k/12) for an integer number k of semitones
PowSemitones(k) ==
  LET r == k % 12
      o == (k - r) \div 12
  IN  IF o >= 0 THEN SemitoneRatio[r + 1] * Pow2(o)
      ELSE SemitoneRatio[r + 1] \div Pow2(-o)

\* the frequency of a note with steps at the octaves only
NoteFrequencyByOctave(note_index) ==
  LET k == note_index - 69
      o == (k - (k % 12)) \div 12
  IN  IF o >= 0 THEN 440 * One * Pow2(o) ELSE (440 * One) \div Pow2(-o)

\* director.rs:294: 440.0 * 2^((note_index-69)/12), rounded once
NoteFrequency(note_index) ==
  LET k == note_index - 69
      r == k % 12
      o == (k - r) \div 12
  IN  IF o >= 0 THEN 440 * SemitoneRatio[r + 1] * Pow2(o)
      ELSE (440 * SemitoneRatio[r + 1]) \div Pow2(-o)

\* f32::powf(0.85, k) in millionths
RECURSIVE Pow85Fine(_)
Pow85Fine(k) == IF k <= 0 THEN One * One ELSE (Pow85Fine(k - 1) * 85) \div 100

\* f32::powf(0.85, k)
Pow85(k) == Pow85Fine(k) \div One

\* sqrt(n) for a voice count n, in thousandths
SqrtVoices(n) ==
  IF n \in 1..9
  THEN <<1000, 1414, 1732, 2000, 2236, 2449, 2646, 2828, 3000>>[n]
  ELSE 0

\* 0.5 - 0.5*cos(pi*k/20) for k in 0..20, in thousandths
RaisedCosine ==
  <<0, 6, 24, 54, 95, 146, 206, 273, 345, 422, 500,
    578, 655, 727, 794, 854, 905, 946, 976, 994, 1000>>

\* weight2 with the test `j < end` of line 827 written `j <= end`
Weight2Late(j, start, end) ==
  IF j > end THEN 1000
  ELSE LET f == ((j - start) * 1000) \div (end - start)
           k == Min(f \div 50, 19)
           w == RaisedCosine[k + 1]
                + ((RaisedCosine[k + 2] - RaisedCosine[k + 1]) * (f % 50)) \div 50
       IN  IF j = start THEN 0 ELSE Max(1, Min(999, w))

\* weight2 of update_transitions for start <= j, in thousandths: the raised
\* cosine of (j-start)/(end-start), interpolated linearly between the
\* tabulated points and strictly between 0 and 1 inside the interval
Weight2(j, start, end) ==
  IF j >= end THEN 1000
  ELSE LET f == ((j - start) * 1000) \div (end - start)
           k == f \div 50
           w == RaisedCosine[k + 1]
                + ((RaisedCosine[k + 2] - RaisedCosine[k + 1]) * (f % 50)) \div 50
       IN  IF j = start THEN 0 ELSE Max(1, Min(999, w))

Blend(weight2, a, b) == ((1000 - weight2) * a + weight2 * b) \div 1000

(***************************************************************************)
(* The Director (chorus/src/director.rs).  Each operation takes the        *)
(* director record d and gives the record after the call.                  *)
(***************************************************************************)
VoiceParts == {"Soprano", "Alto", "Tenor", "Bass"}

\* Voice::new followed by nothing else (chorus/src/voice.rs)
NewVoice ==
  [volume |-> One, frequency |-> 220 * One, rd |-> (One * 17) \div 10,
   noise |-> One \div 100, vibrato_amplitude |-> One \div 50,
   tremolo_amplitude |-> One \div 5,
   shape |-> [from |-> [base |-> <<"new">>, dark |-> 0, high |-> 0],
              to |-> [base |-> <<"new">>, dark |-> 0, high |-> 0],
              weight2 |-> 1000],
   nasal_coupling |-> 0]

ZeroShape == [base |-> <<"zero">>, dark |-> 0, high |-> 0]

update_volume(d) ==
  LET actual_volume == One \div 20 + Mul((One * 95) \div 100, d.volume)
  IN  [d EXCEPT !.voices =
         [i \in DOMAIN d.voices |->
            [d.voices[i] EXCEPT !.volume = Mul(actual_volume, d.envelope[i])]]]

\* update_frequency that also bends the frequency the transitions aim at
update_frequency_bending_target(d) ==
  [d EXCEPT
     !.voices =
        [i \in DOMAIN d.voices |->
           [d.voices[i] EXCEPT !.frequency = Mul(d.frequency[i], d.bend)]],
     !.frequency_after_transitions = Mul(@, d.bend)]

update_frequency(d) ==
  [d EXCEPT !.voices =
     [i \in DOMAIN d.voices |->
        [d.voices[i] EXCEPT !.frequency = Mul(d.frequency[i], d.bend)]]]

\* i below is the 0-based voice index of the source
update_vibrato(d) ==
  LET amplitude == Mul(One \div 25, d.vibrato + One \div 10)
      n == Len(d.voices)
  IN  [d EXCEPT !.voices =
         [k \in DOMAIN d.voices |->
            LET i == k - 1
            IN  [d.voices[k] EXCEPT !.vibrato_amplitude =
                   IF n < 4 THEN Mul(amplitude, One - (One * i) \div 4)
                   ELSE Mul(amplitude, One - (One * i) \div (2 * (n - 1)))]]]

update_sound(d) ==
  LET noise == Mul(One \div 20, Mul(One - d.volume, One - d.volume))
      tremolo == Mul(One \div 5, d.intensity)
      rd == IF is_some(d.current_note)
            THEN LET x == ((d.highest_note - unwrap(d.current_note).note_index) * One)
                          \div (d.highest_note - d.lowest_note)
                 IN  (One * 3) \div 2 + x \div 2 - d.volume \div 5
                     - (d.intensity - One \div 2)
            ELSE 0
  IN  [d EXCEPT !.voices =
         [k \in DOMAIN d.voices |->
            [d.voices[k] EXCEPT
               !.noise = noise,
               !.tremolo_amplitude = tremolo,
               !.rd = IF is_some(d.current_note)
                      THEN rd + ((k - 1) % 4) * (One \div 10)
                      ELSE @]]]

\* the pan angle of a voice in thousandths of a quarter turn (pi/2)
update_pan_positions(d) ==
  LET voice_count == Len(d.voices)
  IN  [d EXCEPT !.voice_pan =
         [k \in DOMAIN d.voices |->
            IF voice_count = 1 THEN One \div 2
            ELSE One \div 2
                 + Mul(d.stereo_width,
                       ((k - 1) * One) \div (voice_count - 1) - One \div 2)]]

\* update_voice_delays spreading the voices over twice max_voice_delay
update_voice_delays_too_long(d) ==
  LET voice_count == Len(d.voices)
  IN  [d EXCEPT !.voice_delays =
         [k \in DOMAIN d.voices |->
            IF voice_count = 1 THEN 0
            ELSE LET index == ((k - 1) + (voice_count \div 2)) % voice_count
                 IN  (2 * d.max_voice_delay * index) \div (voice_count - 1)]]

update_voice_delays(d) ==
  LET voice_count == Len(d.voices)
  IN  [d EXCEPT !.voice_delays =
         [k \in DOMAIN d.voices |->
            IF voice_count = 1 THEN 0
            ELSE LET index == ((k - 1) + (voice_count \div 2)) % voice_count
                 IN  (d.max_voice_delay * index) \div (voice_count - 1)]]

\* (delay, transition time) of a transient vowel
get_vowel_timing(d, vowel, is_final) ==
  IF vowel = "m" THEN (IF is_final THEN <<500, 3200>> ELSE <<0, 3200>>)
  ELSE IF vowel = "n"
  THEN (IF is_final THEN <<500, 3200>> ELSE <<0, d.vowel_transition_time>>)
  ELSE IF vowel = "N" THEN <<1000, 2000>>
  ELSE IF vowel = "l" /\ ~is_final THEN <<0, 2000>>
  ELSE IF vowel = "3"
  THEN (IF is_final THEN <<d.vowel_delay, 1500>> ELSE <<d.vowel_delay, 2500>>)
  ELSE IF is_final THEN <<d.vowel_delay, 3200>>
  ELSE <<d.vowel_delay, d.vowel_transition_time>>

EnvelopeChange(start_envelope, end_envelope) ==
  [kind |-> "EnvelopeChange", from |-> start_envelope, to |-> end_envelope]

FrequencyChange(start_frequency, end_frequency) ==
  [kind |-> "FrequencyChange", from |-> start_frequency, to |-> end_frequency]

ShapeChange(start_shape, end_shape, start_nasal_coupling, end_nasal_coupling) ==
  [kind |-> "ShapeChange",
   from |-> [shape |-> start_shape, nasal_coupling |-> start_nasal_coupling],
   to |-> [shape |-> end_shape, nasal_coupling |-> end_nasal_coupling]]

add_transition(d, delay, duration, data) ==
  LET transition == [start |-> d.step + delay, end |-> d.step + delay + duration,
                     data |-> data]
      d1 == CASE data.kind = "EnvelopeChange" ->
                   [d EXCEPT !.envelope_after_transitions = data.to]
              [] data.kind = "ShapeChange" ->
                   [d EXCEPT !.shape_after_transitions = data.to.shape,
                             !.nasal_coupling_after_transitions =
                                data.to.nasal_coupling]
              [] data.kind = "FrequencyChange" ->
                   [d EXCEPT !.frequency_after_transitions = data.to]
  IN  [d1 EXCEPT !.transitions = Append(@, transition)]

add_shape_transition(d, delay, duration, end_shape, end_nasal_coupling, note_index, adjust_for_pitch) ==
  LET s1 == IF end_nasal_coupling = 0 /\ d.brightness < One
            THEN [end_shape EXCEPT !.dark = Mul(One - d.brightness, One \div 5)]
            ELSE end_shape
      s2 == IF note_index > d.high_blend_note /\ end_nasal_coupling = 0
               /\ adjust_for_pitch
            THEN [s1 EXCEPT !.high =
                    (d.high_blend_fraction * (note_index - d.high_blend_note))
                    \div (d.highest_note - d.high_blend_note)]
            ELSE s1
      end_shapes == Repeat(s2, Len(d.voices))
  IN  add_transition(d, delay, duration,
        ShapeChange(d.shape_after_transitions, end_shapes,
                    d.nasal_coupling_after_transitions, end_nasal_coupling))

add_vowel_transition(d, delay, vowel1, vowel2, vowel_transition_time, note_index) ==
  LET shape == unwrap(get_vowel_shape(vowel2))
      nasal_coupling == get_nasal_coupling(vowel2)
      intermediate_shape == get_intermediate_shape(vowel1, vowel2)
      intermediate_coupling ==
        (d.nasal_coupling_after_transitions + nasal_coupling) \div 2
  IN  IF is_some(intermediate_shape)
      THEN The({add_shape_transition(d1, delay + vowel_transition_time \div 2,
                  vowel_transition_time \div 2, shape, nasal_coupling,
                  note_index, TRUE)
                : d1 \in {add_shape_transition(d, delay,
                            vowel_transition_time \div 2,
                            unwrap(intermediate_shape), intermediate_coupling,
                            note_index, TRUE)}})
      ELSE add_shape_transition(d, delay, vowel_transition_time, shape,
             nasal_coupling, note_index, TRUE)

\* gives [d, delay]: the director and the delay after the vowel
add_transient_vowel(d, delay, envelope_offset, prev_vowel, c, vowel_delay, vowel_transition_time, is_final, legato, note_index) ==
  LET scale == IF legato THEN 90 ELSE IF is_final THEN 25 ELSE 70
      amplification == (scale * get_amplification(c)) \div 100
  IN  The({[d |-> add_transition(d1, delay - envelope_offset,
                    vowel_transition_time,
                    EnvelopeChange(d1.envelope_after_transitions, amplification)),
            delay |-> delay + vowel_delay + vowel_transition_time]
           : d1 \in {IF is_some(prev_vowel)
                     THEN add_vowel_transition(d, delay, unwrap(prev_vowel), c,
                            vowel_transition_time, note_index)
                     ELSE add_shape_transition(d, delay, vowel_transition_time,
                            unwrap(get_vowel_shape(c)), get_nasal_coupling(c),
                            note_index, TRUE)}})

\* the Consonant that add_consonant queues: the template of the library
\* with its start and volume set.  time_scale and amplify are in
\* hundredths.  sample_indices is the number of voices (the first ones)
\* that play a recording instead of filtered noise; which recording each
\* plays is random in the program.
scheduled_consonant(d, delay, template, amplify) ==
  LET volume1 == (Mul(template.volume, 2 * d.consonant_volume) * amplify) \div 100
      volume2 == IF ~template.mono /\ Len(d.voices) > 0
                 THEN (Mul(volume1, One + (d.max_voice_delay * One) \div 4000) * One)
                      \div SqrtVoices(Len(d.voices))
                 ELSE volume1
  IN  [template EXCEPT
         !.start = d.step + delay + template.delay,
         !.volume = volume2,
         !.sample_indices = IF template.sample_length > 0
                            THEN Max(1, (Len(d.voices) * 3) \div 4)
                            ELSE 0]

\* the shape transitions of add_consonant towards (is_final) or from the
\* adjacent vowel
consonant_shapes(d, delay, consonant, adjacent_vowel, is_final, note_index) ==
  LET nasal_coupling == get_nasal_coupling(adjacent_vowel)
      shape == unwrap(get_consonant_shape(consonant, adjacent_vowel))
  IN  IF is_final
      THEN add_shape_transition(d, delay, consonant.transition_time, shape,
             nasal_coupling, note_index, FALSE)
      ELSE The({add_shape_transition(d1, delay + 1000,
                  consonant.transition_time,
                  unwrap(get_vowel_shape(adjacent_vowel)), nasal_coupling,
                  note_index, TRUE)
                : d1 \in {add_shape_transition(d, delay, 1000, shape, 0,
                            note_index, FALSE)}})

\* gives [d, delay_to_consonant, delay_to_vowel, envelope_offset]
add_consonant(d, delay, c, adjacent_vowel, is_final, note_index, time_scale, amplify) ==
  The({[d |-> [d1 EXCEPT !.consonants = Append(@, consonant)],
        delay_to_consonant |->
          consonant.delay + consonant.on_time + consonant.off_time,
        delay_to_vowel |->
          consonant.delay
          + (IF ~is_some(adjacent_vowel) THEN 0
             ELSE IF is_final THEN consonant.transition_time
             ELSE consonant.transition_time + 1000),
        envelope_offset |->
          IF is_some(adjacent_vowel) /\ consonant.voiced
          THEN consonant.transition_time ELSE 0]
       : consonant \in
           {scheduled_consonant(d, delay, template, amplify)
            : template \in {unwrap(get_consonant(c, adjacent_vowel, is_final,
                                                 time_scale))}},
         d1 \in
           {IF is_some(adjacent_vowel)
            THEN consonant_shapes(d, delay, template, unwrap(adjacent_vowel),
                                  is_final, note_index)
            ELSE d
            : template \in {unwrap(get_consonant(c, adjacent_vowel, is_final,
                                                 time_scale))}}})

\* the loop of lines 296-298 and 450-452 left out
MaxTransitionDelayIgnored(transitions, step, delay) == delay

\* the largest end of a pending transition, relative to now (at least 0)
RECURSIVE MaxTransitionDelay(_, _, _)
MaxTransitionDelay(transitions, step, delay) ==
  IF Len(transitions) = 0 THEN delay
  ELSE MaxTransitionDelay(Tail(transitions), step,
                          Max(delay, Head(transitions).end - step))

\* the loop of lines 299-303 left out
MaxConsonantDelayIgnored(consonants, step, delay) == delay

RECURSIVE MaxConsonantDelay(_, _, _)
MaxConsonantDelay(consonants, step, delay) ==
  IF Len(consonants) = 0 THEN delay
  ELSE LET c == Head(consonants)
       IN  MaxConsonantDelay(Tail(consonants), step,
             Max(delay, c.start + c.on_time + c.off_time - step))

\* move every transition and consonant later by offset
ShiftStartsOfAll(d, num_transitions, num_consonants, offset) ==
  [d EXCEPT
     !.transitions =
        [i \in DOMAIN d.transitions |->
           [d.transitions[i] EXCEPT !.start = @ + offset, !.end = @ + offset]],
     !.consonants =
        [i \in DOMAIN d.consonants |->
           [d.consonants[i] EXCEPT !.start = @ + offset]]]

\* move the transitions and consonants after the first num_transitions and
\* num_consonants ones later by offset
ShiftStarts(d, num_transitions, num_consonants, offset) ==
  [d EXCEPT
     !.transitions =
        [i \in DOMAIN d.transitions |->
           IF i > num_transitions
           THEN [d.transitions[i] EXCEPT !.start = @ + offset, !.end = @ + offset]
           ELSE d.transitions[i]],
     !.consonants =
        [i \in DOMAIN d.consonants |->
           IF i > num_consonants
           THEN [d.consonants[i] EXCEPT !.start = @ + offset]
           ELSE d.consonants[i]]]

\* the loop over the final vowels of a note (note_on and note_off);
\* gives [d, delay, prev_vowel]
RECURSIVE play_final_vowels(_, _, _, _, _, _)
play_final_vowels(d, vowels, delay, prev_vowel, legato, note_index) ==
  IF Len(vowels) = 0 THEN [d |-> d, delay |-> delay, prev_vowel |-> prev_vowel]
  ELSE The({play_final_vowels(r.d, Tail(vowels), r.delay, Some(Head(vowels)),
                              legato, note_index)
            : r \in {add_transient_vowel(d, delay, 0, prev_vowel, Head(vowels),
                       get_vowel_timing(d, Head(vowels), TRUE)[1],
                       get_vowel_timing(d, Head(vowels), TRUE)[2],
                       TRUE, legato, note_index)}})

\* the loop over the final consonants in note_off; count is the number of
\* final consonants of the note; gives [d, delay]
RECURSIVE play_final_consonants(_, _, _, _, _, _, _)
play_final_consonants(d, consonants, count, delay, final_vowel, legato, note_index) ==
  IF Len(consonants) = 0 THEN [d |-> d, delay |-> delay]
  ELSE LET time_scale == ((IF legato THEN 80 ELSE 100)
                          * (IF count > 1 THEN 80 ELSE 100)) \div 100
           amplify == IF legato \/ count > 1 THEN 100 ELSE 120
       IN  The({play_final_consonants(r.d, Tail(consonants), count,
                  delay + r.delay_to_consonant, final_vowel, legato, note_index)
                : r \in {add_consonant(d, delay, Head(consonants), final_vowel,
                                       TRUE, note_index, time_scale, amplify)}})

\* note_off, lines 448-478: the final vowels of the current note, moved
\* later when they would end before min_vowel_start; gives
\* [d, delay, prev_vowel], prev_vowel being final_vowel
final_vowels_of_note(d, legato) ==
  The({IF ~legato /\ v.delay < d.min_vowel_start
       THEN [v EXCEPT
               !.d = ShiftStarts(v.d, Len(d.transitions), Len(v.d.consonants),
                                 d.min_vowel_start - v.delay),
               !.delay = d.min_vowel_start]
       ELSE v
       : v \in {IF is_some(d.current_note)
                THEN play_final_vowels(d,
                       unwrap(d.current_note).syllable.final_vowels,
                       MaxTransitionDelay(d.transitions, d.step, 0),
                       Some(unwrap(d.current_note).syllable.main_vowel),
                       legato, unwrap(d.current_note).note_index)
                ELSE [d |-> d,
                      delay |-> MaxTransitionDelay(d.transitions, d.step, 0),
                      prev_vowel |-> None]}})

\* note_off, lines 480-519, v being what final_vowels_of_note gave: the
\* final consonants, the transition that stops the sound, and no current
\* note
stop_sound(d, v, legato, sustain) ==
  LET note_index == IF is_some(d.current_note)
                    THEN unwrap(d.current_note).note_index ELSE -1
      off_time0 == IF legato THEN 1500
                   ELSE 1000 + Trunc(6000 * (One - d.release_rate))
      consonants == IF is_some(d.current_note)
                    THEN unwrap(d.current_note).syllable.final_consonants
                    ELSE <<>>
      first_consonant ==
        unwrap(get_consonant(consonants[1], v.prev_vowel, TRUE, 100))
      stop_envelope_time ==
        IF Len(consonants) > 0 /\ first_consonant.voiced
        THEN v.delay + first_consonant.delay ELSE v.delay
      off_time ==
        IF Len(consonants) = 0 THEN off_time0
        ELSE IF first_consonant.voiced
        THEN Max(off_time0, first_consonant.transition_time)
        ELSE Min(off_time0, first_consonant.transition_time)
      end_envelope == IF sustain THEN One \div 10 ELSE 0
  IN  The({[add_transition(c.d, stop_envelope_time, off_time,
              EnvelopeChange(c.d.envelope_after_transitions, end_envelope))
            EXCEPT !.current_note = None]
           : c \in {play_final_consonants(v.d, consonants, Len(consonants),
                      v.delay, v.prev_vowel, legato, note_index)}})

\* note_off without line 519
note_off_keeping_note(d, legato, sustain) ==
  The({[stop_sound(d, v, legato, sustain) EXCEPT !.current_note = d.current_note]
       : v \in {final_vowels_of_note(d, legato)}})

note_off(d, legato, sustain) ==
  The({stop_sound(d, v, legato, sustain)
       : v \in {final_vowels_of_note(d, legato)}})

\* the test of line 270 answering false for every list of consonants
AllVoicedNever(consonants) == FALSE

AllVoiced(consonants) == \A i \in DOMAIN consonants : is_voiced_consonant(consonants[i])

\* update_starts without the shift of lines 373-383
update_starts_without_shift(d, delay, num_transitions, num_consonants) ==
  [d |-> d, delay |-> delay]

\* the closure update_starts of note_on; gives [d, delay]
update_starts(d, delay, num_transitions, num_consonants) ==
  IF delay < d.min_vowel_start
  THEN [d |-> ShiftStarts(d, num_transitions, num_consonants,
                          d.min_vowel_start - delay),
        delay |-> d.min_vowel_start]
  ELSE [d |-> d, delay |-> delay]

\* the loop over the initial consonants in note_on; i is 1-based;
\* gives [d, delay, envelope_offset]
RECURSIVE play_initial_consonants(_, _, _, _, _, _, _, _)
play_initial_consonants(d, consonants, i, delay, envelope_offset, adjacent_vowel, has_current_note, note_index) ==
  IF i > Len(consonants)
  THEN [d |-> d, delay |-> delay, envelope_offset |-> envelope_offset]
  ELSE LET time_scale == ((IF has_current_note THEN 80 ELSE 100)
                          * (IF Len(consonants) > 1 THEN 80 ELSE 100)) \div 100
       IN  The({play_initial_consonants(r.d, consonants, i + 1,
                  delay + (IF i = Len(consonants) THEN r.delay_to_vowel
                           ELSE r.delay_to_consonant),
                  r.envelope_offset, adjacent_vowel, has_current_note,
                  note_index)
                : r \in {add_consonant(d, delay, consonants[i],
                           Some(adjacent_vowel), FALSE, note_index, time_scale,
                           100)}})

\* the loop over the initial vowels in note_on; st is
\* [d, delay, has_updated_starts, attack_time, prev_vowel, envelope_offset]
RECURSIVE play_initial_vowels(_, _, _, _, _, _)
play_initial_vowels(st, vowels, has_current_note, note_index, num_transitions, num_consonants) ==
  IF Len(vowels) = 0 THEN st
  ELSE LET c == Head(vowels)
           update == ~st.has_updated_starts /\ c # "l" /\ c # "m" /\ c # "n"
       IN  The({play_initial_vowels(
                  [st EXCEPT !.d = r.d, !.delay = r.delay,
                             !.has_updated_starts = @ \/ update,
                             !.attack_time = 0, !.prev_vowel = Some(c)],
                  Tail(vowels), has_current_note, note_index,
                  num_transitions, num_consonants)
                : r \in {add_transient_vowel(u.d, u.delay, st.envelope_offset,
                           st.prev_vowel, c, get_vowel_timing(u.d, c, FALSE)[1],
                           Max(get_vowel_timing(u.d, c, FALSE)[2], st.attack_time),
                           FALSE, has_current_note, note_index)
                         : u \in {IF update
                                  THEN update_starts(st.d, st.delay,
                                         num_transitions, num_consonants)
                                  ELSE [d |-> st.d, delay |-> st.delay]}}})

\* note_on, lines 319-338, fv being what the loop over the final vowels of
\* the current note gave: the frequency and the envelope glide to the new
\* note; gives the record st of play_initial_vowels
glide(fv, new_syllable, note_index, current_note_index, continuous, attack_time) ==
  LET jump == Abs(current_note_index - note_index)
      transition_time == 1000 + 150 * jump
      first_vowel == IF ~continuous /\ Len(new_syllable.initial_vowels) > 0
                     THEN new_syllable.initial_vowels[1]
                     ELSE new_syllable.main_vowel
  IN  The({LET min_envelope == Mul(g.envelope_after_transitions, Pow85(jump))
               final_envelope ==
                 IF current_note_index > note_index
                 THEN (Min(One, get_amplification(first_vowel)) + min_envelope)
                      \div 2
                 ELSE Min(One, get_amplification(first_vowel))
           IN  [d |-> add_transition(
                        add_transition(g, fv.delay, transition_time \div 2,
                          EnvelopeChange(g.envelope_after_transitions,
                                         min_envelope)),
                        fv.delay + transition_time \div 2,
                        transition_time \div 2,
                        EnvelopeChange(min_envelope, final_envelope)),
                delay |-> fv.delay + transition_time,
                has_updated_starts |-> FALSE,
                attack_time |-> attack_time,
                prev_vowel |-> fv.prev_vowel,
                envelope_offset |-> 0]
           : g \in {add_transition(fv.d, fv.delay, transition_time,
                      FrequencyChange(fv.d.frequency_after_transitions,
                                      NoteFrequency(note_index)))}})

\* note_on, lines 294-365, d1 being the director after the current note
\* was finished where it had to be: the glide from the current note, or
\* the frequency and the initial consonants of the new one; gives the
\* record st of play_initial_vowels
begin_note(d1, new_syllable, note_index, continuous, delay_for_consonants, has_current_note, attack_time) ==
  LET frequency == NoteFrequency(note_index)
      delay0 == MaxTransitionDelay(d1.transitions, d1.step, 0)
      delay == IF delay_for_consonants
               THEN MaxConsonantDelay(d1.consonants, d1.step, delay0)
               ELSE delay0
      adjacent_vowel == IF Len(new_syllable.initial_vowels) > 0
                        THEN new_syllable.initial_vowels[1]
                        ELSE new_syllable.main_vowel
  IN  IF is_some(d1.current_note)
      THEN The({glide(fv, new_syllable, note_index,
                      unwrap(d1.current_note).note_index, continuous,
                      attack_time)
                : fv \in {IF ~continuous
                          THEN play_final_vowels(d1,
                                 unwrap(d1.current_note).syllable.final_vowels,
                                 delay,
                                 Some(unwrap(d1.current_note).syllable.main_vowel),
                                 TRUE, unwrap(d1.current_note).note_index)
                          ELSE [d |-> d1, delay |-> delay,
                                prev_vowel |-> None]}})
      ELSE The({[d |-> ic.d, delay |-> ic.delay,
                 has_updated_starts |-> FALSE, attack_time |-> attack_time,
                 prev_vowel |-> None, envelope_offset |-> ic.envelope_offset]
                : ic \in {play_initial_consonants(f,
                            new_syllable.initial_consonants, 1, delay, 0,
                            adjacent_vowel, has_current_note, note_index)
                          : f \in {add_transition(d1, delay, 1000,
                                     FrequencyChange(frequency, frequency))}}})

\* note_on, lines 401-403: update_starts unless it was called in the loop
settle_starts(st, num_transitions, num_consonants) ==
  IF st.has_updated_starts THEN st
  ELSE [st EXCEPT
          !.d = update_starts(st.d, st.delay, num_transitions,
                              num_consonants).d,
          !.delay = update_starts(st.d, st.delay, num_transitions,
                                  num_consonants).delay,
          !.has_updated_starts = TRUE]

\* note_on, lines 405-442: the main vowel, the envelope of the new note,
\* and the record of the note
\* start_main_vowel without the transition that brings an accented note
\* back down to the amplification of its vowel (lines 427-432)
start_main_vowel_without_decay(st, new_syllable, note_index, velocity, has_current_note) ==
  LET main_vowel == new_syllable.main_vowel
      transition_time ==
        IF has_current_note \/ Len(new_syllable.initial_vowels) > 0
           \/ Len(new_syllable.initial_consonants) > 0
        THEN st.d.vowel_transition_time ELSE 0
      amplification == get_amplification(main_vowel)
      max_amplitude == IF st.d.accent
                       THEN Mul(amplification, One + (velocity * 5) \div 2)
                       ELSE amplification
      attack_time ==
        Max(get_vowel_timing(st.d, main_vowel, FALSE)[2], st.attack_time)
  IN  The({update_sound([d4 EXCEPT !.current_note =
                  Some([syllable |-> new_syllable, note_index |-> note_index])])
           : d4 \in
               {add_transition(d3, st.delay - st.envelope_offset,
                  attack_time,
                  EnvelopeChange(d3.envelope_after_transitions,
                                 max_amplitude))
                : d3 \in
                    {IF is_some(st.prev_vowel)
                     THEN add_vowel_transition(st.d, st.delay,
                            unwrap(st.prev_vowel), main_vowel,
                            st.d.vowel_transition_time, note_index)
                     ELSE add_shape_transition(st.d, st.delay,
                            transition_time,
                            unwrap(get_vowel_shape(main_vowel)),
                            get_nasal_coupling(main_vowel), note_index,
                            TRUE)}}})

\* start_main_vowel with the attack scaled by the velocity whether or not
\* accent is enabled
start_main_vowel_scaled_by_velocity(st, new_syllable, note_index, velocity, has_current_note) ==
  LET main_vowel == new_syllable.main_vowel
      transition_time ==
        IF has_current_note \/ Len(new_syllable.initial_vowels) > 0
           \/ Len(new_syllable.initial_consonants) > 0
        THEN st.d.vowel_transition_time ELSE 0
      amplification == get_amplification(main_vowel)
      max_amplitude == Mul(amplification, One + (velocity * 5) \div 2)
      attack_time ==
        Max(get_vowel_timing(st.d, main_vowel, FALSE)[2], st.attack_time)
  IN  The({update_sound([d5 EXCEPT !.current_note =
                  Some([syllable |-> new_syllable, note_index |-> note_index])])
           : d5 \in
               {IF st.d.accent
                THEN add_transition(d4,
                       st.delay - st.envelope_offset + attack_time, 4000,
                       EnvelopeChange(max_amplitude, amplification))
                ELSE d4
                : d4 \in
                    {add_transition(d3, st.delay - st.envelope_offset,
                       attack_time,
                       EnvelopeChange(d3.envelope_after_transitions,
                                      max_amplitude))
                     : d3 \in
                         {IF is_some(st.prev_vowel)
                          THEN add_vowel_transition(st.d, st.delay,
                                 unwrap(st.prev_vowel), main_vowel,
                                 st.d.vowel_transition_time, note_index)
                          ELSE add_shape_transition(st.d, st.delay,
                                 transition_time,
                                 unwrap(get_vowel_shape(main_vowel)),
                                 get_nasal_coupling(main_vowel), note_index,
                                 TRUE)}}}})

start_main_vowel(st, new_syllable, note_index, velocity, has_current_note) ==
  LET main_vowel == new_syllable.main_vowel
      transition_time ==
        IF has_current_note \/ Len(new_syllable.initial_vowels) > 0
           \/ Len(new_syllable.initial_consonants) > 0
        THEN st.d.vowel_transition_time ELSE 0
      amplification == get_amplification(main_vowel)
      max_amplitude == IF st.d.accent
                       THEN Mul(amplification, One + (velocity * 5) \div 2)
                       ELSE amplification
      attack_time ==
        Max(get_vowel_timing(st.d, main_vowel, FALSE)[2], st.attack_time)
  IN  The({update_sound([d5 EXCEPT !.current_note =
                  Some([syllable |-> new_syllable, note_index |-> note_index])])
           : d5 \in
               {IF st.d.accent
                THEN add_transition(d4,
                       st.delay - st.envelope_offset + attack_time, 4000,
                       EnvelopeChange(max_amplitude, amplification))
                ELSE d4
                : d4 \in
                    {add_transition(d3, st.delay - st.envelope_offset,
                       attack_time,
                       EnvelopeChange(d3.envelope_after_transitions,
                                      max_amplitude))
                     : d3 \in
                         {IF is_some(st.prev_vowel)
                          THEN add_vowel_transition(st.d, st.delay,
                                 unwrap(st.prev_vowel), main_vowel,
                                 st.d.vowel_transition_time, note_index)
                          ELSE add_shape_transition(st.d, st.delay,
                                 transition_time,
                                 unwrap(get_vowel_shape(main_vowel)),
                                 get_nasal_coupling(main_vowel), note_index,
                                 TRUE)}}}})

\* note_on, lines 271-276: the new note carries on the syllable of the
\* current one (the local `continuous`)
is_continuous(d, new_syllable, continue_syllable) ==
  /\ is_some(d.current_note)
  /\ continue_syllable
  /\ unwrap(d.current_note).syllable.main_vowel = new_syllable.main_vowel

\* finishes_current_note without the test for consonants of line 277
finishes_every_note(d, new_syllable, continue_syllable) ==
  /\ is_some(d.current_note)
  /\ ~is_continuous(d, new_syllable, continue_syllable)

\* note_on, lines 277-292: consonants stand between the two vowels, so the
\* current note is finished with note_off before the new one starts
finishes_current_note(d, new_syllable, continue_syllable) ==
  /\ is_some(d.current_note)
  /\ ~is_continuous(d, new_syllable, continue_syllable)
  /\ \/ Len(unwrap(d.current_note).syllable.final_consonants) > 0
     \/ Len(new_syllable.initial_consonants) > 0

\* note_on after the range check and a successful Syllable::build (lines
\* 264-442); read from the innermost set outwards: finish the current note
\* (d1), begin the new one (st0), play its initial vowels (st1), settle the
\* start times (st), start the main vowel
sing(d, new_syllable, note_index, velocity, continue_syllable) ==
  LET num_transitions == Len(d.transitions)
      num_consonants == Len(d.consonants)
      has_current_note == is_some(d.current_note)
      old == unwrap(d.current_note).syllable
      continuous == is_continuous(d, new_syllable, continue_syllable)
      segmented == finishes_current_note(d, new_syllable, continue_syllable)
      delay_for_consonants ==
        segmented
        /\ \/ Len(old.final_consonants) + Len(new_syllable.initial_consonants) > 1
           \/ (Len(old.final_consonants) = 1
               /\ ~is_voiced_consonant(old.final_consonants[1]))
           \/ (Len(new_syllable.initial_consonants) = 1
               /\ ~is_voiced_consonant(new_syllable.initial_consonants[1]))
      sustain == AllVoiced(new_syllable.initial_consonants)
                 /\ (segmented => AllVoiced(old.final_consonants))
      attack_time == IF Len(new_syllable.initial_consonants) = 0
                     THEN 1000 + Trunc(10000 * (One - d.attack_rate)) ELSE 0
  IN  The({start_main_vowel(st, new_syllable, note_index, velocity,
                            has_current_note)
           : st \in
               {settle_starts(st1, num_transitions, num_consonants)
                : st1 \in
                    {IF ~continuous
                     THEN play_initial_vowels(st0, new_syllable.initial_vowels,
                            has_current_note, note_index, num_transitions,
                            num_consonants)
                     ELSE st0
                     : st0 \in
                         {begin_note(d1, new_syllable, note_index, continuous,
                                     delay_for_consonants, has_current_note,
                                     attack_time)
                          : d1 \in {IF segmented
                                    THEN note_off(d, TRUE, sustain)
                                    ELSE d}}}}})

\* note_on with Syllable::build moved after the end of the current note
note_on_finishing_first(d, syllable, note_index, velocity, continue_syllable) ==
  IF note_index < d.lowest_note \/ note_index > d.highest_note
  THEN [d |-> IF is_some(d.current_note) THEN note_off(d, FALSE, FALSE) ELSE d,
        result |-> "Ok"]
  ELSE IF ~SyllableBuild(syllable).ok
  THEN [d |-> IF is_some(d.current_note) THEN note_off(d, TRUE, FALSE) ELSE d,
        result |-> "Err"]
  ELSE [d |-> sing(d, SyllableBuild(syllable).syllable, note_index, velocity,
                   continue_syllable),
        result |-> "Ok"]

\* note_on with Syllable::build moved before the range check
note_on_building_first(d, syllable, note_index, velocity, continue_syllable) ==
  IF ~SyllableBuild(syllable).ok THEN [d |-> d, result |-> "Err"]
  ELSE IF note_index < d.lowest_note \/ note_index > d.highest_note
  THEN [d |-> IF is_some(d.current_note) THEN note_off(d, FALSE, FALSE) ELSE d,
        result |-> "Ok"]
  ELSE [d |-> sing(d, SyllableBuild(syllable).syllable, note_index, velocity,
                   continue_syllable),
        result |-> "Ok"]

\* note_on without the test `self.current_note.is_some()` of line 256
note_on_always_stopping(d, syllable, note_index, velocity, continue_syllable) ==
  IF note_index < d.lowest_note \/ note_index > d.highest_note
  THEN [d |-> note_off(d, FALSE, FALSE), result |-> "Ok"]
  ELSE IF ~SyllableBuild(syllable).ok THEN [d |-> d, result |-> "Err"]
  ELSE [d |-> sing(d, SyllableBuild(syllable).syllable, note_index, velocity,
                   continue_syllable),
        result |-> "Ok"]

\* gives [d, result]: the director after the call and "Ok" or "Err"
note_on(d, syllable, note_index, velocity, continue_syllable) ==
  IF note_index < d.lowest_note \/ note_index > d.highest_note
  THEN [d |-> IF is_some(d.current_note) THEN note_off(d, FALSE, FALSE) ELSE d,
        result |-> "Ok"]
  ELSE LET built == SyllableBuild(syllable)
       IN  IF ~built.ok THEN [d |-> d, result |-> "Err"]
           ELSE [d |-> sing(d, built.syllable, note_index, velocity,
                            continue_syllable),
                 result |-> "Ok"]

\* the playable range and the blend settings of a voice part
PartSettings(voice_part) ==
  CASE voice_part = "Soprano" ->
         [lowest_note |-> 57, highest_note |-> 88, high_blend_note |-> 72,
          high_blend_fraction |-> (One * 3) \div 10]
    [] voice_part = "Alto" ->
         [lowest_note |-> 48, highest_note |-> 79, high_blend_note |-> 72,
          high_blend_fraction |-> (One * 15) \div 100]
    [] voice_part = "Tenor" ->
         [lowest_note |-> 43, highest_note |-> 72, high_blend_note |-> 64,
          high_blend_fraction |-> One \div 10]
    [] voice_part = "Bass" ->
         [lowest_note |-> 36, highest_note |-> 67, high_blend_note |-> 60,
          high_blend_fraction |-> One \div 10]

\* initialize_voices without line 235: shape_after_transitions is left as
\* it was
initialize_voices_keeping_shapes(d, voice_part, voice_count) ==
  LET part == PartSettings(voice_part)
      d1 == [d EXCEPT
               !.voice_part = voice_part,
               !.voices = Repeat(NewVoice, voice_count),
               !.transitions = <<>>,
               !.current_note = None,
               !.consonants = <<>>,
               !.voice_delays = Repeat(0, voice_count),
               !.voice_pan = Repeat(0, voice_count),
               !.envelope = Repeat(0, voice_count),
               !.frequency = Repeat(0, voice_count),
               !.bend = One,
               !.nasal_coupling_after_transitions = 0,
               !.envelope_after_transitions = 0,
               !.frequency_after_transitions = 0,
               !.lowest_note = part.lowest_note,
               !.highest_note = part.highest_note,
               !.high_blend_note = part.high_blend_note,
               !.high_blend_fraction = part.high_blend_fraction]
  IN  update_voice_delays(update_sound(update_frequency(update_volume(
        update_vibrato(update_pan_positions(d1))))))

\* initialize_voices without line 201: the pitch bend is left as it was
initialize_voices_keeping_bend(d, voice_part, voice_count) ==
  LET part == PartSettings(voice_part)
      d1 == [d EXCEPT
               !.voice_part = voice_part,
               !.voices = Repeat(NewVoice, voice_count),
               !.transitions = <<>>,
               !.current_note = None,
               !.consonants = <<>>,
               !.voice_delays = Repeat(0, voice_count),
               !.voice_pan = Repeat(0, voice_count),
               !.envelope = Repeat(0, voice_count),
               !.frequency = Repeat(0, voice_count),
               !.nasal_coupling_after_transitions = 0,
               !.envelope_after_transitions = 0,
               !.frequency_after_transitions = 0,
               !.lowest_note = part.lowest_note,
               !.highest_note = part.highest_note,
               !.high_blend_note = part.high_blend_note,
               !.high_blend_fraction = part.high_blend_fraction,
               !.shape_after_transitions = Repeat(ZeroShape, voice_count)]
  IN  update_voice_delays(update_sound(update_frequency(update_volume(
        update_vibrato(update_pan_positions(d1))))))

initialize_voices(d, voice_part, voice_count) ==
  LET part == PartSettings(voice_part)
      d1 == [d EXCEPT
               !.voice_part = voice_part,
               !.voices = Repeat(NewVoice, voice_count),
               !.transitions = <<>>,
               !.current_note = None,
               !.consonants = <<>>,
               !.voice_delays = Repeat(0, voice_count),
               !.voice_pan = Repeat(0, voice_count),
               !.envelope = Repeat(0, voice_count),
               !.frequency = Repeat(0, voice_count),
               !.bend = One,
               !.nasal_coupling_after_transitions = 0,
               !.envelope_after_transitions = 0,
               !.frequency_after_transitions = 0,
               !.lowest_note = part.lowest_note,
               !.highest_note = part.highest_note,
               !.high_blend_note = part.high_blend_note,
               !.high_blend_fraction = part.high_blend_fraction,
               !.shape_after_transitions = Repeat(ZeroShape, voice_count)]
  IN  update_voice_delays(update_sound(update_frequency(update_volume(
        update_vibrato(update_pan_positions(d1))))))

\* Director::new
NewDirector(voice_part, voice_count) ==
  initialize_voices(
    [voices |-> <<>>, voice_part |-> voice_part,
     lowest_note |-> 0, highest_note |-> 0, high_blend_note |-> 0,
     high_blend_fraction |-> 0,
     step |-> 0, transitions |-> <<>>, current_note |-> None,
     consonants |-> <<>>, max_voice_delay |-> 2000, voice_delays |-> <<>>,
     volume |-> One, envelope |-> <<>>, frequency |-> <<>>, bend |-> One,
     vibrato |-> (One * 4) \div 10, intensity |-> One \div 2,
     brightness |-> One, consonant_volume |-> One \div 2,
     attack_rate |-> (One * 8) \div 10, release_rate |-> One \div 2,
     accent |-> FALSE, min_vowel_start |-> 0, off_after_step |-> 0,
     shape_after_transitions |-> <<>>,
     nasal_coupling_after_transitions |-> 0,
     envelope_after_transitions |-> 0, frequency_after_transitions |-> 0,
     stereo_width |-> (One * 3) \div 10, voice_pan |-> <<>>,
     phonemes |-> [absent |-> {}],
     vowel_delay |-> 0, vowel_transition_time |-> 3500,
     consonant_delay |-> 3000, consonant_transition_time |-> 0,
     consonant_on_time |-> 1000, consonant_off_time |-> 1000,
     consonant_volume2 |-> One \div 10, consonant_position |-> 40,
     consonant_frequency |-> 2000 * One, consonant_bandwidth |-> 3000 * One,
     randomize |-> One \div 10],
    voice_part, voice_count)

\* the match of process_messages on one received message; gives
\* [d, result], result being what note_on returned ("None" for the other
\* messages)
process_message(d, m) ==
  CASE m.type = "Reinitialize" ->
         [d |-> initialize_voices(d, m.voice_part, m.voice_count), result |-> "None"]
    [] m.type = "NoteOn" ->
         note_on(d, m.syllable, m.note_index, m.velocity, m.continue_syllable)
    [] m.type = "NoteOff" ->
         [d |-> note_off(d, FALSE, FALSE), result |-> "None"]
    [] m.type = "SetVolume" ->
         [d |-> update_sound(update_volume([d EXCEPT !.volume = m.volume])),
          result |-> "None"]
    [] m.type = "SetPitchBend" ->
         [d |-> update_frequency([d EXCEPT !.bend = PowSemitones(m.semitones)]),
          result |-> "None"]
    [] m.type = "SetVibrato" ->
         [d |-> update_vibrato([d EXCEPT !.vibrato = m.vibrato]), result |-> "None"]
    [] m.type = "SetIntensity" ->
         [d |-> update_sound([d EXCEPT !.intensity = m.intensity]), result |-> "None"]
    [] m.type = "SetBrightness" ->
         [d |-> [d EXCEPT !.brightness = m.brightness], result |-> "None"]
    [] m.type = "SetConsonantVolume" ->
         [d |-> [d EXCEPT !.consonant_volume = m.volume], result |-> "None"]
    [] m.type = "SetAttackRate" ->
         [d |-> [d EXCEPT !.attack_rate = m.attack], result |-> "None"]
    [] m.type = "SetReleaseRate" ->
         [d |-> [d EXCEPT !.release_rate = m.release], result |-> "None"]
    [] m.type = "SetAccent" ->
         [d |-> [d EXCEPT !.accent = m.accent], result |-> "None"]
    [] m.type = "SetStereoWidth" ->
         [d |-> update_pan_positions([d EXCEPT !.stereo_width = m.width]),
          result |-> "None"]
    [] m.type = "SetMinVowelStartTime" ->
         [d |-> [d EXCEPT !.min_vowel_start = m.samples], result |-> "None"]
    [] m.type = "SetMaxVoiceDelay" ->
         [d |-> update_voice_delays([d EXCEPT !.max_voice_delay = m.max_delay]),
          result |-> "None"]
    [] m.type = "SetDelays" ->
         [d |-> [d EXCEPT !.vowel_delay = m.vowel_delay,
                          !.vowel_transition_time = m.vowel_transition_time,
                          !.consonant_delay = m.consonant_delay,
                          !.consonant_transition_time = m.consonant_transition_time],
          result |-> "None"]
    [] m.type = "SetConsonants" ->
         [d |-> [d EXCEPT !.consonant_on_time = m.on_time,
                          !.consonant_off_time = m.off_time,
                          !.consonant_volume2 = m.volume,
                          !.consonant_position = m.position,
                          !.consonant_frequency = m.frequency,
                          !.consonant_bandwidth = m.bandwidth],
          result |-> "None"]
    [] m.type = "SetRandomize" ->
         [d |-> [d EXCEPT !.randomize = m.randomize], result |-> "None"]

\* the body of the loop of update_transitions for one transition: every
\* voice whose delayed step has reached the start takes the blended value
apply_transition(d, transition) ==
  LET data == transition.data
      W(i) == Weight2(d.step - d.voice_delays[i], transition.start, transition.end)
      started(i) == d.step - d.voice_delays[i] >= transition.start
  IN  CASE data.kind = "EnvelopeChange" ->
             [d EXCEPT !.envelope =
                [i \in DOMAIN d.voices |->
                   IF started(i) THEN Blend(W(i), data.from, data.to)
                   ELSE d.envelope[i]]]
        [] data.kind = "ShapeChange" ->
             [d EXCEPT !.voices =
                [i \in DOMAIN d.voices |->
                   IF started(i)
                   THEN [d.voices[i] EXCEPT
                           !.shape = [from |-> data.from.shape[i],
                                      to |-> data.to.shape[i], weight2 |-> W(i)],
                           !.nasal_coupling =
                              Blend(W(i), data.from.nasal_coupling,
                                    data.to.nasal_coupling)]
                   ELSE d.voices[i]]]
        [] data.kind = "FrequencyChange" ->
             [d EXCEPT !.frequency =
                [i \in DOMAIN d.voices |->
                   IF started(i) THEN Blend(W(i), data.from, data.to)
                   ELSE d.frequency[i]]]

\* the loop of update_transitions run from the last transition to the
\* first, so that the earliest one is applied last
RECURSIVE apply_transitions_backwards(_, _)
apply_transitions_backwards(d, k) ==
  IF k > Len(d.transitions) THEN d
  ELSE apply_transition(apply_transitions_backwards(d, k + 1), d.transitions[k])

RECURSIVE apply_transitions(_, _)
apply_transitions(d, k) ==
  IF k > Len(d.transitions) THEN d
  ELSE apply_transitions(apply_transition(d, d.transitions[k]), k + 1)

\* Vec::retain with the test of update_transitions: the transitions that
\* the voice with the longest delay, max_voice_delay, has not finished
Retain(s, step, max_voice_delay) ==
  LET F[i \in 0..Len(s)] ==
        IF i = 0 THEN <<>>
        ELSE IF step < s[i].end + max_voice_delay THEN Append(F[i - 1], s[i])
        ELSE F[i - 1]
  IN  F[Len(s)]

HasStarted(d, kind) ==
  \E k \in DOMAIN d.transitions : \E i \in DOMAIN d.voices :
     /\ d.transitions[k].data.kind = kind
     /\ d.step - d.voice_delays[i] >= d.transitions[k].start

\* update_transitions that drops a transition at its end, before the
\* delayed voices have reached it
update_transitions_dropping_early(d) ==
  LET d1 == apply_transitions(d, 1)
      d2 == IF HasStarted(d, "EnvelopeChange") THEN update_volume(d1) ELSE d1
      d3 == IF HasStarted(d, "FrequencyChange") THEN update_frequency(d2) ELSE d2
  IN  [d3 EXCEPT !.transitions = Retain(d.transitions, d.step, 0)]

update_transitions(d) ==
  LET d1 == apply_transitions(d, 1)
      d2 == IF HasStarted(d, "EnvelopeChange") THEN update_volume(d1) ELSE d1
      d3 == IF HasStarted(d, "FrequencyChange") THEN update_frequency(d2) ELSE d2
  IN  [d3 EXCEPT !.transitions = Retain(d.transitions, d.step, d.max_voice_delay)]

\* the window test of generate with the delay of the voice left out
InsideWindowUndelayed(d, c, i, step) ==
  LET j == step - c.start
      consonant_duration == IF j > 0 /\ i < c.sample_indices
                            THEN c.sample_length
                            ELSE c.on_time + c.off_time
  IN  j < consonant_duration

\* whether voice i (0-based) is still inside the window of consonant c at
\* step: the test `j < consonant_duration` of generate
InsideWindow(d, c, i, step) ==
  LET j == step - c.start - d.voice_delays[i + 1]
      consonant_duration == IF j > 0 /\ i < c.sample_indices
                            THEN c.sample_length
                            ELSE c.on_time + c.off_time
  IN  j < consonant_duration

\* whether voice i (0-based) sings consonant c
Sings(d, c, i) == ~c.mono \/ i = Len(d.voices) \div 2

\* the number of samples for which generate keeps running the voices after
\* the last envelope and the last consonant have gone
OffAfter == 500

\* the two tests of generate that push off_after_step forward: a consonant
\* is queued or a voice has a positive envelope
Active(d) ==
  Len(d.consonants) # 0 \/ \E i \in DOMAIN d.envelope : d.envelope[i] > 0

\* generate_sample that looks at the consonants only, not at the envelopes
generate_sample_without_envelopes(d) ==
  LET step == d.step + 1
      off_after_step == IF Len(d.consonants) # 0 THEN step + OffAfter
                        ELSE d.off_after_step
      d1 == [d EXCEPT !.step = step, !.off_after_step = off_after_step]
  IN  IF step < off_after_step
      THEN [d |-> d1, output |-> "voices"]
      ELSE [d |-> d1, output |-> "silence"]

\* generate_sample that runs the voices for one sample more
generate_sample_one_more(d) ==
  LET step == d.step + 1
      off_after_step == IF Active(d) THEN step + OffAfter ELSE d.off_after_step
      d1 == [d EXCEPT !.step = step, !.off_after_step = off_after_step]
  IN  IF step <= off_after_step
      THEN [d |-> d1, output |-> "voices"]
      ELSE [d |-> d1, output |-> "silence"]

\* generate after the periodic work: gives [d, output], output being
\* "silence" when the loop over the voices is skipped and "voices" when the
\* returned pair is the mix of the voices
generate_sample(d) ==
  LET step == d.step + 1
      off_after_step == IF Active(d) THEN step + OffAfter ELSE d.off_after_step
      d1 == [d EXCEPT !.step = step, !.off_after_step = off_after_step]
      consonant_finished ==
        /\ Len(d.consonants) > 0
        /\ \A i \in 0..(Len(d.voices) - 1) :
              Sings(d, d.consonants[1], i)
                 => ~InsideWindow(d, d.consonants[1], i, step)
  IN  IF step < off_after_step
      THEN [d |-> IF consonant_finished
                  THEN [d1 EXCEPT !.consonants = Tail(@)] ELSE d1,
            output |-> "voices"]
      ELSE [d |-> d1, output |-> "silence"]

\* the periodic work of generate once the messages are received
periodic(d) == IF d.step % 200 = 0 THEN update_transitions(d) ELSE d

\* generate when no message is waiting
generate(d) ==
  IF d.step % 200 = 0 THEN generate_sample(update_transitions(d))
  ELSE generate_sample(d)

(***************************************************************************)
(* The waveguides of a voice (chorus/src/voice.rs).  A waveguide is the    *)
(* record of the four vectors of the struct; code index i is index i + 1   *)
(* here.  Areas, coefficients and wave values are in thousandths.          *)
(***************************************************************************)
\* the loop of compute_reflections from code index i on, then the
\* coefficient of the last segment; the quotient is rounded to the nearest
\* thousandth
RECURSIVE compute_reflections(_, _)
compute_reflections(w, i) ==
  IF i >= Len(w.k) - 1 THEN [w EXCEPT !.k[Len(w.k)] = -850]
  ELSE compute_reflections(
         IF w.area[i + 2] = 0
         THEN [w EXCEPT !.k[i + 1] = 980, !.right[i + 1] = 0, !.left[i + 1] = 0]
         ELSE [w EXCEPT !.k[i + 2] =
                 (2 * One * (w.area[i + 1] - w.area[i + 2])
                    + (w.area[i + 1] + w.area[i + 2]))
                 \div (2 * (w.area[i + 1] + w.area[i + 2]))],
         i + 1)

\* Waveguide::new
WaveguideNew(length) ==
  compute_reflections([area |-> Repeat(0, length), k |-> Repeat(0, length),
                       right |-> Repeat(0, length), left |-> Repeat(0, length)],
                      0)

\* Waveguide::set_shape
set_shape(w, shape) == compute_reflections([w EXCEPT !.area = shape], 0)

\* Voice::set_vocal_shape
set_vocal_shape(v, shape, nasal_coupling) ==
  [v EXCEPT !.vocal = set_shape(@, shape), !.nasal_coupling = nasal_coupling]

\* propagate with a damping factor above 1
propagate_amplifying(w, input, damping) ==
  LET n == Len(w.right)
      Times(x, c) == (x \div One) * c + ((x % One) * c + One \div 2) \div One
      W(j) == Times(w.right[j - 1] + w.left[j], w.k[j])
  IN  [w EXCEPT
         !.right = [j \in 1..n |-> IF j = 1 THEN input + w.left[1]
                                   ELSE Times(w.right[j - 1] - W(j), 1020)],
         !.left = [j \in 1..n |-> IF j = n THEN w.left[n]
                                  ELSE Times(w.left[j + 1] + W(j + 1), 1020)]]

\* one pass of the propagation loops of Voice::generate over a waveguide:
\* the right-going wave enters segment 0 as input + left[0]; every junction
\* i in 1..n-1 scatters with w = k[i]*(right[i-1]+left[i]); the vectors are
\* read from the copies made before the loop, so all segments are updated
\* at once; left[n-1] is not written.  Products are rounded to the nearest
\* thousandth (Times).
propagate(w, input, damping) ==
  LET n == Len(w.right)
      Times(x, c) == (x \div One) * c + ((x % One) * c + One \div 2) \div One
      W(j) == Times(w.right[j - 1] + w.left[j], w.k[j])
  IN  [w EXCEPT
         !.right = [j \in 1..n |-> IF j = 1 THEN input + w.left[1]
                                   ELSE Times(w.right[j - 1] - W(j), damping)],
         !.left = [j \in 1..n |-> IF j = n THEN w.left[n]
                                  ELSE Times(w.left[j + 1] + W(j + 1), damping)]]

\* one of the two substeps of Voice::generate (lines 332-376)
substep(v, step, excitation) ==
  LET vocal == propagate(v.vocal, excitation, 995)
      off == IF v.nasal_coupling > 0 THEN step + 500 ELSE v.nasal_off_after_step
      nasal == propagate(v.nasal, 0, 980)
      pos == v.coupling_position + 1
      w1 == v.nasal_coupling
      w2 == One - v.nasal_coupling
      nasal_right == Mul(nasal.right[1], w2) + Mul(vocal.right[pos], w1)
      nasal_left == Mul(nasal.left[1], w2) + Mul(vocal.left[pos], w1)
  IN  IF step >= off
      THEN [v EXCEPT !.vocal = vocal, !.nasal_off_after_step = off]
      ELSE IF v.nasal_coupling = 0
      THEN [v EXCEPT !.vocal = vocal, !.nasal = nasal, !.nasal_off_after_step = off]
      ELSE [v EXCEPT
              !.nasal = [nasal EXCEPT !.right[1] = nasal_right,
                                      !.left[1] = nasal_left],
              !.vocal = [vocal EXCEPT
                           !.right[pos] = Mul(nasal_right, w1) + Mul(vocal.right[pos], w2),
                           !.left[pos] = Mul(nasal_left, w1) + Mul(vocal.left[pos], w2)],
              !.nasal_off_after_step = off]

\* what Glottis::generate returns at a step, reduced to two bounded
\* signals: a single pulse at step 0, or the same value at every step
glottis_generate(glottis, step) ==
  IF glottis = "pulse" THEN (IF step = 0 THEN 10 * One ELSE 0) ELSE 10 * One

\* Voice::generate: the record after the call and the sample returned
voice_generate(v, step, noise, noise_position) ==
  LET noise_area == v.vocal.area[noise_position + 1]
      injected == IF noise_area < 200 THEN Mul(noise, 5 * noise_area) ELSE noise
      v1 == IF noise_area > 0
            THEN [v EXCEPT !.vocal.right[noise_position + 1] = @ + injected,
                           !.vocal.left[noise_position + 1] = @ + injected]
            ELSE v
      excitation == Mul(glottis_generate(v.glottis, step), v.volume)
      v2 == substep(substep(v1, step, excitation), step, excitation)
  IN  [v |-> v2,
       sample |-> v2.vocal.right[Len(v2.vocal.right)]
                  + v2.nasal.right[Len(v2.nasal.right)]]

\* Voice::new for a vocal tract of vocal_length segments
VoiceNew(vocal_length, coupling_position, nasal_shape, glottis) ==
  [glottis |-> glottis,
   vocal |-> WaveguideNew(vocal_length),
   nasal |-> set_shape(WaveguideNew(Len(nasal_shape)), nasal_shape),
   volume |-> One,
   nasal_coupling |-> 0,
   coupling_position |-> coupling_position,
   nasal_off_after_step |-> 0]

(***************************************************************************)
(* The two actors.  The control actor sends on the channel; the audio      *)
(* actor calls generate once per sample.  A generate call at a step that   *)
(* is a multiple of 200 first receives the waiting messages one by one     *)
(* (ProcessMessage, one try_recv each) and goes on when the channel is     *)
(* empty (Generate).                                                       *)
(*                                                                         *)
(* queue is the channel: each entry is a message with the number of the    *)
(* send (id) and the step at which it was sent (at).  applied is the log   *)
(* of the messages received so far, each with the voice part it found and  *)
(* what note_on returned.                                                  *)
(* output is what the last generate call returned.  quiet counts the       *)
(* generate calls, up to OffAfter, since the last one that found a         *)
(* positive envelope or a queued consonant; calls counts the generate      *)
(* calls that have returned.                                               *)
(*                                                                         *)
(* plugin is the state of ChorusExMachina that process reads and writes    *)
(* while it handles the note events of a block, with the events the host   *)
(* has still to hand over; voice is a Voice that is driven on its own, as  *)
(* the tests of the library drive it.                                      *)
(***************************************************************************)
VARIABLES director, queue, output, sent, applied, quiet, calls, plugin, voice

vars == <<director, queue, output, sent, applied, quiet, calls, plugin, voice>>

NoteOn(syllable, note_index, velocity, continue_syllable) ==
  [type |-> "NoteOn", syllable |-> syllable, note_index |-> note_index,
   velocity |-> velocity, continue_syllable |-> continue_syllable]

NoteOff == [type |-> "NoteOff"]

Reinitialize(voice_part, voice_count) ==
  [type |-> "Reinitialize", voice_part |-> voice_part, voice_count |-> voice_count]

\* ChorusExMachina::default, with the parameters as process has last seen
\* them, a block of no samples and no event
PluginDefault ==
  [last_note |-> 255, last_syllable_index |-> -1, phrase |-> <<<<"A">>>>,
   advance_syllable |-> TRUE, events |-> <<>>, next_event |-> 1,
   sample_id |-> 0, samples |-> 0]

\* handle_event with a NoteOn arm that leaves send_note_off as it is
handle_event_keeping_note_off(st, event) ==
  CASE event.type = "NoteOn" ->
         IF Len(st.plugin.phrase) = 0 THEN st
         ELSE LET n == Len(st.plugin.phrase)
                  last == IF st.plugin.advance_syllable
                          THEN (st.plugin.last_syllable_index + 1) % n
                          ELSE st.plugin.last_syllable_index
                  syllable_index == IF last < 0 \/ last >= n THEN 0 ELSE last
              IN  [plugin |-> [st.plugin EXCEPT !.last_syllable_index = last,
                                                !.last_note = event.note],
                   sends |-> Append(st.sends,
                               NoteOn(st.plugin.phrase[syllable_index + 1],
                                      event.note, event.velocity,
                                      ~st.plugin.advance_syllable)),
                   send_note_off |-> st.send_note_off]
    [] event.type = "NoteOff" ->
         IF event.note = st.plugin.last_note
         THEN [st EXCEPT !.send_note_off = TRUE] ELSE st
    [] event.type = "MidiPitchBend" ->
         [st EXCEPT !.sends =
            Append(@, [type |-> "SetPitchBend",
                       semitones |-> (4 * (event.value - One \div 2)) \div One])]
    [] OTHER -> st

\* one arm of the match on a note event in process (lines 266-304); st
\* holds the plugin, the messages sent so far for this sample and the
\* local send_note_off
handle_event(st, event) ==
  CASE event.type = "NoteOn" ->
         IF Len(st.plugin.phrase) = 0 THEN st
         ELSE LET n == Len(st.plugin.phrase)
                  last == IF st.plugin.advance_syllable
                          THEN (st.plugin.last_syllable_index + 1) % n
                          ELSE st.plugin.last_syllable_index
                  syllable_index == IF last < 0 \/ last >= n THEN 0 ELSE last
              IN  [plugin |-> [st.plugin EXCEPT !.last_syllable_index = last,
                                                !.last_note = event.note],
                   sends |-> Append(st.sends,
                               NoteOn(st.plugin.phrase[syllable_index + 1],
                                      event.note, event.velocity,
                                      ~st.plugin.advance_syllable)),
                   send_note_off |-> FALSE]
    [] event.type = "NoteOff" ->
         IF event.note = st.plugin.last_note
         THEN [st EXCEPT !.send_note_off = TRUE] ELSE st
    [] event.type = "MidiPitchBend" ->
         [st EXCEPT !.sends =
            Append(@, [type |-> "SetPitchBend",
                       semitones |-> (4 * (event.value - One \div 2)) \div One])]
    [] OTHER -> st

\* the while loop of process over the events whose timing is the current
\* sample (lines 262-306)
RECURSIVE handle_events(_)
handle_events(st) ==
  IF \/ st.plugin.next_event > Len(st.plugin.events)
     \/ st.plugin.events[st.plugin.next_event].timing # st.plugin.sample_id
  THEN st
  ELSE handle_events(handle_event([st EXCEPT !.plugin.next_event = @ + 1],
                                  st.plugin.events[st.plugin.next_event]))

\* what process does for one sample before it calls generate (lines
\* 260-309): the plugin afterwards and the messages sent, in order
process_sample(p) ==
  LET st == handle_events([plugin |-> p, sends |-> <<>>, send_note_off |-> FALSE])
  IN  [plugin |-> [st.plugin EXCEPT !.sample_id = @ + 1],
       sends |-> IF st.send_note_off THEN Append(st.sends, NoteOff) ELSE st.sends]

\* the number of segments of the vocal tract of the voice driven on its own
\* (42 to 52 in Voice::new)
VocalLength == 3

\* a voice with the pulse as its excitation, before any call; the nasal
\* cavity has the first and the last area of the soprano's
VoiceDefault == VoiceNew(VocalLength, 1, <<1520, 672>>, "pulse")

\* the director is built as the plugin (Soprano, 1 voice) or the player
\* (Alto, 4 voices) builds it
InitConfigs == {<<"Soprano", 1>>, <<"Alto", 4>>}

Init ==
  /\ \E c \in InitConfigs : director = NewDirector(c[1], c[2])
  /\ queue = <<>>
  /\ output = "none"
  /\ sent = 0
  /\ applied = <<>>
  /\ quiet = OffAfter
  /\ calls = 0
  /\ plugin = PluginDefault
  /\ voice = VoiceDefault

SendMessage(m) ==
  /\ queue' = Append(queue, [msg |-> m, id |-> sent + 1, at |-> director.step])
  /\ sent' = sent + 1
  /\ UNCHANGED <<director, output, applied, quiet, calls, plugin, voice>>

\* generate is at the start of a block and try_recv has a message to give
CanReceive == output # "panic" /\ director.step % 200 = 0 /\ queue # <<>>

\* generate is inside a block, or try_recv has reported an empty channel
CanGenerate == output # "panic" /\ (director.step % 200 = 0 => queue = <<>>)

\* the phonemes for which message m makes the director ask the library for
\* a vowel shape or a consonant template: each answer ends up in a shape
\* transition or in a queued consonant
Lookups(d, m) ==
  IF m.type \notin {"NoteOn", "NoteOff"} THEN {}
  ELSE LET r == process_message(d, m).d
           shapes == {r.transitions[k].data.to.shape[1].base :
                        k \in {j \in (Len(d.transitions) + 1)..Len(r.transitions) :
                                 /\ r.transitions[j].data.kind = "ShapeChange"
                                 /\ Len(r.transitions[j].data.to.shape) > 0}}
       IN  {b[2] : b \in {s \in shapes : s[1] = "vowel"}}
           \cup {r.consonants[k].symbol :
                   k \in (Len(d.consonants) + 1)..Len(r.consonants)}

\* an unwrap() of an answer of the library panics when the answer is None
Panics(d, m) ==
  d.phonemes.absent # {} /\ Lookups(d, m) \cap d.phonemes.absent # {}

ReceiveMessage ==
  /\ CanReceive
  /\ IF Panics(director, Head(queue).msg)
     THEN /\ output' = "panic"
          /\ applied' = Append(applied,
                          [msg |-> Head(queue).msg, id |-> Head(queue).id,
                           at |-> Head(queue).at, part |-> director.voice_part,
                           result |-> "Panic"])
          /\ UNCHANGED director
     ELSE /\ LET r == process_message(director, Head(queue).msg)
             IN  /\ director' = r.d
                 /\ applied' = Append(applied,
                                 [msg |-> Head(queue).msg, id |-> Head(queue).id,
                                  at |-> Head(queue).at, part |-> director.voice_part,
                                  result |-> r.result])
          /\ UNCHANGED output
  /\ queue' = Tail(queue)
  /\ UNCHANGED <<sent, quiet, calls, plugin, voice>>

\* generate with process_messages returning before the channel is empty
GenerateSampleLeavingMessages ==
  /\ LET r == generate(director)
     IN  /\ director' = r.d
         /\ output' = r.output
  /\ quiet' = IF Active(periodic(director)) THEN 0 ELSE Min(quiet + 1, OffAfter)
  /\ calls' = calls + 1
  /\ UNCHANGED <<queue, sent, applied, plugin, voice>>

GenerateSample ==
  /\ CanGenerate
  /\ LET r == generate(director)
     IN  /\ director' = r.d
         /\ output' = r.output
  /\ quiet' = IF Active(periodic(director)) THEN 0 ELSE Min(quiet + 1, OffAfter)
  /\ calls' = calls + 1
  /\ UNCHANGED <<queue, sent, applied, plugin, voice>>

(***************************************************************************)
(* Spec: any messages, received at the start of the first two blocks of    *)
(* samples; the samples are generated as long as a message is still to be  *)
(* sent.                                                                   *)
(***************************************************************************)
MaxSent == 2

MaxStep == 201

NoteMessages ==
  {NoteOn(<<"a">>, 69, One, FALSE),
   NoteOn(<<"a">>, 72, One \div 2, TRUE),
   NoteOn(<<"i", "a">>, 67, One, TRUE),
   NoteOn(<<"k", "e", "d">>, 67, One \div 2, FALSE),
   NoteOn(<<"A", "i">>, 71, One, FALSE),
   NoteOn(<<"s", "a">>, 64, One, FALSE),
   NoteOn(<<"a">>, 50, One, FALSE),
   NoteOn(<<"k">>, 69, One, FALSE),
   NoteOn(<<"a">>, 100, One, FALSE),
   NoteOn(<<"k">>, 100, One, FALSE),
   NoteOff,
   Reinitialize("Soprano", 4)}

SetMessages ==
  {[type |-> "SetVolume", volume |-> One \div 2],
   [type |-> "SetPitchBend", semitones |-> 2],
   [type |-> "SetVibrato", vibrato |-> One],
   [type |-> "SetIntensity", intensity |-> One],
   [type |-> "SetBrightness", brightness |-> One \div 2],
   [type |-> "SetConsonantVolume", volume |-> One],
   [type |-> "SetAttackRate", attack |-> One \div 2],
   [type |-> "SetReleaseRate", release |-> One],
   [type |-> "SetAccent", accent |-> TRUE],
   [type |-> "SetStereoWidth", width |-> One],
   [type |-> "SetMinVowelStartTime", samples |-> 4800],
   [type |-> "SetMaxVoiceDelay", max_delay |-> 960]}

Messages == NoteMessages \cup SetMessages

\* a message sent between two blocks of 200 samples is received at the
\* start of the later block: the sends are placed there
Send ==
  \E m \in Messages :
     sent < MaxSent /\ director.step % 200 = 0 /\ SendMessage(m)

ProcessMessage == director.step < MaxStep /\ ReceiveMessage

Generate == director.step < MaxStep /\ sent < MaxSent /\ GenerateSample

Next == Send \/ ProcessMessage \/ Generate

Spec == Init /\ [][Next]_vars

(***************************************************************************)
(* What the log says about a received message                              *)
(***************************************************************************)
Last(s) == s[Len(s)]

\* the step just taken received a message
Received == Len(applied') = Len(applied) + 1

IsNoteOn(entry) == entry.msg.type = "NoteOn"

WellFormed(entry) == SyllableBuild(entry.msg.syllable).ok

\* the note of the message lies in the range of the voice part it found
InRange(entry) ==
  /\ entry.msg.note_index >= PartSettings(entry.part).lowest_note
  /\ entry.msg.note_index <= PartSettings(entry.part).highest_note

\* the four kinds of message that decide whether a note is current
StartsNote(entry) == IsNoteOn(entry) /\ InRange(entry) /\ WellFormed(entry)

EndsNote(entry) ==
  \/ entry.msg.type \in {"NoteOff", "Reinitialize"}
  \/ IsNoteOn(entry) /\ ~InRange(entry)

\* the index in the log of the last message that starts or ends a note,
\* 0 when there is none
LastNoteEvent ==
  LET events == {k \in DOMAIN applied : StartsNote(applied[k]) \/ EndsNote(applied[k])}
  IN  IF events = {} THEN 0 ELSE CHOOSE k \in events : \A j \in events : j <= k

Sounding == is_some(director.current_note)

AfterValues(d) ==
  <<d.envelope_after_transitions, d.frequency_after_transitions,
    d.shape_after_transitions, d.nasal_coupling_after_transitions>>

(***************************************************************************)
(* Properties under Spec                                                   *)
(***************************************************************************)
\* C1: whenever note_on returns an error because the syllable text is
\* malformed, the director is exactly as before the call: the transitions,
\* the consonants, the current note and the after-transition values are
\* unchanged, and so is every other field.
C1_ErrorLeavesDirectorUnchanged ==
  [][(Received /\ Last(applied').result = "Err") => director' = director]_vars

\* a malformed NoteOn was rejected while a note was sounding, and the note
\* is still there with its transitions
C1_Witness ==
  /\ Len(applied) = 2
  /\ StartsNote(applied[1])
  /\ applied[2].result = "Err"
  /\ Sounding
  /\ director.transitions # <<>>

\* C2 as stated: note_on with a text that Syllable::build rejects returns
\* Err for every note index, inside or outside the range of the voice part.
C2_RejectedTextAlwaysErr ==
  \A k \in DOMAIN applied :
     (IsNoteOn(applied[k]) /\ ~WellFormed(applied[k]))
        => applied[k].result = "Err"

\* C2 amended: note_on with a text that Syllable::build rejects returns Err
\* when the note index is inside the range of the voice part, and Ok when
\* it is outside (the range is tested first and the text is then not read).
C2_RejectedTextErrInsideRange ==
  \A k \in DOMAIN applied :
     (IsNoteOn(applied[k]) /\ ~WellFormed(applied[k]))
        => applied[k].result = (IF InRange(applied[k]) THEN "Err" ELSE "Ok")

\* both cases were received: a rejected text outside the range and one
\* inside it
C2_Witness ==
  /\ \E k \in DOMAIN applied :
        IsNoteOn(applied[k]) /\ ~WellFormed(applied[k]) /\ ~InRange(applied[k])
        /\ applied[k].result = "Ok"
  /\ \E k \in DOMAIN applied :
        IsNoteOn(applied[k]) /\ ~WellFormed(applied[k]) /\ InRange(applied[k])
        /\ applied[k].result = "Err"

\* C3 as stated: a NoteOn outside the range has the effect of a NoteOff
\* message on the director, in every state, Sounding or Idle.
C3_OutOfRangeIsNoteOff ==
  [][(Received /\ IsNoteOn(Last(applied')) /\ ~InRange(Last(applied')))
       => director' = process_message(director, NoteOff).d]_vars

\* C3 amended: a NoteOn outside the range has the effect of a NoteOff
\* message when a note is sounding; when the director is Idle it leaves the
\* director unchanged, where a NoteOff message would still add an envelope
\* transition.
C3_OutOfRangeStopsCurrentNote ==
  [][(Received /\ IsNoteOn(Last(applied')) /\ ~InRange(Last(applied')))
       => IF Sounding
          THEN director' = process_message(director, NoteOff).d
          ELSE /\ director' = director
               /\ Len(process_message(director, NoteOff).d.transitions)
                    = Len(director.transitions) + 1]_vars

\* a NoteOn outside the range ended a sounding note
C3_Witness ==
  /\ Len(applied) = 2
  /\ StartsNote(applied[1])
  /\ IsNoteOn(applied[2]) /\ ~InRange(applied[2])
  /\ ~Sounding
  /\ Last(director.transitions).data = EnvelopeChange(One, 0)

\* C4: the director holds at most one current note; it is Sounding exactly
\* when the last received message among NoteOff, Reinitialize, NoteOn
\* outside the range and well-formed NoteOn inside the range is a
\* well-formed NoteOn inside the range, and the current note is then the
\* syllable and the note index of that NoteOn.
C4_CurrentNoteIsLastNoteOn ==
  /\ Len(director.current_note) <= 1
  /\ IF LastNoteEvent # 0 /\ StartsNote(applied[LastNoteEvent])
     THEN director.current_note =
            Some([syllable |->
                    SyllableBuild(applied[LastNoteEvent].msg.syllable).syllable,
                  note_index |-> applied[LastNoteEvent].msg.note_index])
     ELSE director.current_note = None

\* a second note replaced the first
C4_Witness ==
  /\ Len(applied) = 2
  /\ StartsNote(applied[1]) /\ StartsNote(applied[2])
  /\ applied[1].msg.syllable # applied[2].msg.syllable
  /\ Sounding
  /\ unwrap(director.current_note).note_index = applied[2].msg.note_index

\* the field of the director that a Set* message names
SettingOf(type) ==
  CASE type = "SetVolume" -> "volume"
    [] type = "SetPitchBend" -> "bend"
    [] type = "SetVibrato" -> "vibrato"
    [] type = "SetIntensity" -> "intensity"
    [] type = "SetBrightness" -> "brightness"
    [] type = "SetConsonantVolume" -> "consonant_volume"
    [] type = "SetAttackRate" -> "attack_rate"
    [] type = "SetReleaseRate" -> "release_rate"
    [] type = "SetAccent" -> "accent"
    [] type = "SetStereoWidth" -> "stereo_width"
    [] type = "SetMinVowelStartTime" -> "min_vowel_start"
    [] type = "SetMaxVoiceDelay" -> "max_voice_delay"

\* the fields of the director derived from the setting
DerivedOf(type) ==
  CASE type \in {"SetVolume", "SetPitchBend", "SetVibrato", "SetIntensity"} ->
         {"voices"}
    [] type = "SetStereoWidth" -> {"voice_pan"}
    [] type = "SetMaxVoiceDelay" -> {"voice_delays"}
    [] OTHER -> {}

\* the parameters of a voice derived from the setting
VoiceParametersOf(type) ==
  CASE type = "SetVolume" -> {"volume", "noise", "tremolo_amplitude", "rd"}
    [] type = "SetPitchBend" -> {"frequency"}
    [] type = "SetVibrato" -> {"vibrato_amplitude"}
    [] type = "SetIntensity" -> {"noise", "tremolo_amplitude", "rd"}
    [] OTHER -> {}

SetTypes == {m.type : m \in SetMessages}

\* C6: a Set* message changes only the setting it names and the voice
\* parameters derived from it; the current note, the transitions, the
\* consonants, the step and the after-transition values are unchanged, as
\* is every other field of the director and of its voices.
C6_SetChangesOnlyItsSetting ==
  [][(Received /\ Last(applied').msg.type \in SetTypes)
       => LET type == Last(applied').msg.type
          IN  /\ \A f \in DOMAIN director \ ({SettingOf(type)} \cup DerivedOf(type)) :
                    director'[f] = director[f]
              /\ Len(director'.voices) = Len(director.voices)
              /\ \A i \in DOMAIN director.voices :
                    \A p \in DOMAIN NewVoice \ VoiceParametersOf(type) :
                       director'.voices[i][p] = director.voices[i][p]]_vars

\* the pitch was bent while a note was sounding
C6_Witness ==
  /\ Len(applied) = 2
  /\ StartsNote(applied[1])
  /\ applied[2].msg.type = "SetPitchBend"
  /\ director.bend # One
  /\ Sounding
  /\ director.transitions # <<>>

\* the received NoteOn joins the sounding note: it carries on the same main
\* vowel, or no consonant stands between the two notes
Joins(d, entry) ==
  LET old == unwrap(d.current_note).syllable
      new == SyllableBuild(entry.msg.syllable).syllable
  IN  /\ is_some(d.current_note)
      /\ StartsNote(entry)
      /\ \/ entry.msg.continue_syllable /\ old.main_vowel = new.main_vowel
         \/ Len(old.final_consonants) = 0 /\ Len(new.initial_consonants) = 0

MaxCadenceSent == 3

MaxCadenceStep == 401

CadenceOffsets == {0, 1, 199}

CadenceMessages == {NoteOn(<<"a">>, 69, One, FALSE), NoteOff}

CadenceSend ==
  \E m \in CadenceMessages :
     /\ sent < MaxCadenceSent
     /\ director.step % 200 \in CadenceOffsets
     /\ SendMessage(m)

CadenceReceive == director.step < MaxCadenceStep /\ ReceiveMessage

CadenceGenerate == director.step < MaxCadenceStep /\ GenerateSample

CadenceNext == CadenceSend \/ CadenceReceive \/ CadenceGenerate

SpecCadence == Init /\ [][CadenceNext]_vars

\* the step just taken is a generate call that has returned
Generated == director'.step = director.step + 1

\* C5: messages are received only in generate calls whose step counter is
\* a multiple of 200; such a call goes on only when the channel is empty;
\* the messages are applied in the order of the sends, each exactly once;
\* and a message waits for fewer than 200 generate calls, so that it is
\* applied in the 200th call after its send at the latest.
C5_DrainedEvery200Samples ==
  /\ [](/\ sent = Len(applied) + Len(queue)
        /\ \A k \in DOMAIN applied : applied[k].id = k
        /\ \A i \in DOMAIN queue :
              /\ queue[i].id = Len(applied) + i
              /\ director.step - queue[i].at < 200)
  /\ [][/\ Received => /\ director.step % 200 = 0
                       /\ Last(applied').id = Head(queue).id
                       /\ director.step - Last(applied').at < 200
        /\ (Generated /\ director.step % 200 = 0) => queue = <<>>]_vars

\* a message sent just after the start of the first block and two messages
\* sent at its end were received, in this order, at the start of the
\* second block
C5_Witness ==
  /\ Len(applied) = 3
  /\ applied[1].at = 1 /\ applied[2].at = 199 /\ applied[3].at = 199
  /\ applied[1].msg # applied[2].msg
  /\ director.step = 200
  /\ queue = <<>>

(***************************************************************************)
(* SpecRun: the player's director, with a message sent at the start of     *)
(* each of the first two blocks, followed until the sound has settled:     *)
(* SettleSamples samples for each message.                                 *)
(* The audio callback keeps calling generate, and generate keeps receiving *)
(* what is waiting: both steps are weakly fair.  The fairness conditions   *)
(* name the two steps by what they do to the channel and to the count of   *)
(* calls: a step of RunNext is a RunReceive step exactly when it is a      *)
(* Received step that changes queue, and a RunGenerate step exactly when   *)
(* it is a Returned step that changes calls, with the same enabling        *)
(* conditions.                                                             *)
(***************************************************************************)
MaxRunSent == 2

SettleSamples == 9500

RunMessages ==
  {Reinitialize("Soprano", 4),
   NoteOn(<<"a">>, 69, One, FALSE),
   NoteOn(<<"k", "e", "d">>, 67, One \div 2, FALSE),
   NoteOff}

RunInit ==
  /\ director = NewDirector("Alto", 4)
  /\ queue = <<>>
  /\ output = "none"
  /\ sent = 0
  /\ applied = <<>>
  /\ quiet = OffAfter
  /\ calls = 0
  /\ plugin = PluginDefault
  /\ voice = VoiceDefault

RunSend ==
  \E m \in RunMessages :
     /\ sent < MaxRunSent
     /\ director.step = 200 * sent
     /\ SendMessage(m)

RunReceive == director.step < MaxRunSent * SettleSamples /\ ReceiveMessage

RunGenerate == director.step < MaxRunSent * SettleSamples /\ GenerateSample

RunNext == RunSend \/ RunReceive \/ RunGenerate

RunReceived == director.step < MaxRunSent * SettleSamples /\ CanReceive /\ queue' = Tail(queue)

RunReturned == director.step < MaxRunSent * SettleSamples /\ CanGenerate /\ calls' = calls + 1

SpecRun ==
  RunInit /\ [][RunNext]_vars /\ WF_queue(RunReceived) /\ WF_calls(RunReturned)

\* a NoteOff has been received and no NoteOn after it
StoppedForGood ==
  \E k \in DOMAIN applied :
     /\ applied[k].msg.type = "NoteOff"
     /\ \A j \in DOMAIN applied : j > k => applied[j].msg.type # "NoteOn"

Silent ==
  /\ \A i \in DOMAIN director.envelope : director.envelope[i] = 0
  /\ director.transitions = <<>>
  /\ director.consonants = <<>>
  /\ output = "silence"

\* C7: once a NoteOff has been received and no NoteOn follows it, after
\* finitely many generate calls every envelope is 0, the transitions and
\* the consonants are gone, and every generate call from then on returns
\* silence.
C7_NoteOffLeadsToSilence == <>[]StoppedForGood => <>[]Silent

\* the syllable with consonants was stopped and has died away
C7_Witness ==
  /\ Len(applied) = 2
  /\ applied[1].msg = NoteOn(<<"k", "e", "d">>, 67, One \div 2, FALSE)
  /\ applied[2].msg = NoteOff
  /\ Silent

\* exactly Reinitialize(Soprano, 4) and then NoteOn("a", 69, 1.0, false)
\* have been received, and nothing is waiting
OneNoteOnly ==
  /\ Len(applied) = 2
  /\ applied[1].msg = Reinitialize("Soprano", 4)
  /\ applied[2].msg = NoteOn(<<"a">>, 69, One, FALSE)
  /\ queue = <<>>

Settled ==
  /\ Sounding
  /\ unwrap(director.current_note).syllable.main_vowel = "a"
  /\ Len(director.envelope) = 4
  /\ \A i \in DOMAIN director.envelope :
        director.envelope[i] = get_amplification("a") /\ director.envelope[i] > 0
  /\ output = "voices"

\* C8: after Reinitialize(Soprano, 4) and NoteOn("a", 69, 1.0, false) with
\* no further message, after finitely many generate calls the director is
\* Sounding, every envelope is at the positive steady value of the main
\* vowel, and every generate call from then on runs the voices.
C8_NoteSettlesAndSounds == <>[]OneNoteOnly => <>[]Settled

\* the note has settled and the attack transitions are over
C8_Witness == OneNoteOnly /\ Settled /\ director.transitions = <<>>

\* C9 as stated: a generate call that finds no positive envelope and no
\* queued consonant skips the voices and returns silence.
C9_NoActivityMeansSilence ==
  [][(Generated /\ ~Active(periodic(director))) => output' = "silence"]_vars

\* C9 amended: a generate call skips the voices and returns silence exactly
\* when neither it nor any of the 499 calls before it found a positive
\* envelope or a queued consonant; for 499 calls after the last envelope
\* and the last consonant have gone the voices are still run.
C9_SilenceAfterQuietSamples ==
  [][Generated => (output' = "silence" <=> quiet' = OffAfter)]_vars

\* the voices are run although the envelopes and the consonants have gone,
\* and the next call is the first to return silence
C9_Witness ==
  /\ StoppedForGood
  /\ ~Active(director)
  /\ quiet = OffAfter - 1
  /\ output = "voices"

(***************************************************************************)
(* SpecPhrase: a phrase of three messages, notes of every build of         *)
(* syllable and the minimum vowel start, received at the start of the      *)
(* first two blocks of samples, so that a note finds the transitions and   *)
(* the consonants of the notes before it still pending.  A message is     *)
(* sent when the one before it has been received, and the samples are      *)
(* generated until the second message has been sent.                       *)
(***************************************************************************)
MaxPhraseSent == 3

MaxPhraseEarly == 2

MaxPhraseStep == 201

PhraseMessages ==
  {NoteOn(<<"a">>, 69, One, FALSE),
   NoteOn(<<"a">>, 72, One, TRUE),
   NoteOn(<<"k", "e", "d">>, 67, One \div 2, FALSE),
   NoteOn(<<"d", "a">>, 65, One, FALSE),
   NoteOn(<<"s", "t", "a">>, 64, One, FALSE),
   NoteOn(<<"a", "t">>, 62, One, FALSE),
   NoteOn(<<"b", "l", "u">>, 60, One, FALSE),
   NoteOn(<<"a", "i", "m">>, 67, One, FALSE),
   NoteOn(<<"l", "i", "o">>, 71, One, FALSE),
   NoteOff,
   [type |-> "SetMinVowelStartTime", samples |-> 4800]}

PhraseSend ==
  \E m \in PhraseMessages :
     /\ sent < MaxPhraseSent
     /\ director.step % 200 = 0
     /\ queue = <<>>
     /\ SendMessage(m)

PhraseReceive == director.step < MaxPhraseStep /\ ReceiveMessage

PhraseGenerate ==
  director.step < MaxPhraseStep /\ sent < MaxPhraseEarly /\ GenerateSample

PhraseNext == PhraseSend \/ PhraseReceive \/ PhraseGenerate

SpecPhrase == Init /\ [][PhraseNext]_vars

\* the received NoteOn finds a sounding note that it does not carry on and
\* a consonant between the two vowels: the condition of line 277
Segments(d, entry) ==
  LET old == unwrap(d.current_note).syllable
      new == SyllableBuild(entry.msg.syllable).syllable
  IN  /\ is_some(d.current_note)
      /\ StartsNote(entry)
      /\ ~(entry.msg.continue_syllable /\ old.main_vowel = new.main_vowel)
      /\ Len(old.final_consonants) > 0 \/ Len(new.initial_consonants) > 0

\* every consonant between the two vowels is voiced
VoicedBetween(d, entry) ==
  LET old == unwrap(d.current_note).syllable
      new == SyllableBuild(entry.msg.syllable).syllable
  IN  /\ \A i \in DOMAIN old.final_consonants :
            is_voiced_consonant(old.final_consonants[i])
      /\ \A i \in DOMAIN new.initial_consonants :
            is_voiced_consonant(new.initial_consonants[i])

\* the step just taken added an envelope transition to `level` that ends
\* before any envelope transition added after it starts
StopsAt(level) ==
  LET n == Len(director.transitions)
      added == (n + 1)..Len(director'.transitions)
      t(k) == director'.transitions[k]
  IN  \E k \in added :
         /\ t(k).data.kind = "EnvelopeChange"
         /\ t(k).data.to = level
         /\ \A j \in added :
               (j > k /\ t(j).data.kind = "EnvelopeChange")
                  => t(j).start >= t(k).end

\* C11 as stated: a NoteOn received while a note is sounding, with a
\* consonant between the two syllables and no continuation of the vowel,
\* schedules an envelope transition to 0 that ends before the envelope of
\* the new syllable starts to rise.
C11_ConsonantBringsEnvelopeToZero ==
  [][(Received /\ Segments(director, Last(applied'))) => StopsAt(0)]_vars

\* C11 amended: the envelope transition goes to 0 when one of the
\* consonants between the syllables is unvoiced, and to 0.1 when all of
\* them are voiced (the voice is sustained through voiced consonants); in
\* both cases it ends before the envelope of the new syllable starts to
\* rise.
C11_ConsonantLowersEnvelope ==
  [][(Received /\ Segments(director, Last(applied')))
       => StopsAt(IF VoicedBetween(director, Last(applied'))
                  THEN One \div 10 ELSE 0)]_vars

\* "ked" was followed by "da": the envelope was lowered to 0.1 and rises
\* again from there
C11_Witness ==
  /\ Len(applied) = 2
  /\ applied[1].msg = NoteOn(<<"k", "e", "d">>, 67, One \div 2, FALSE)
  /\ applied[2].msg = NoteOn(<<"d", "a">>, 65, One, FALSE)
  /\ Sounding
  /\ \E k \in DOMAIN director.transitions :
        /\ director.transitions[k].data.kind = "EnvelopeChange"
        /\ director.transitions[k].data.to = One \div 10
  /\ \A k \in DOMAIN director.transitions :
        director.transitions[k].data.kind = "EnvelopeChange"
           => director.transitions[k].data.to > 0

\* the index of the transition with which note_off stops the sound, among
\* the transitions after the first n: the first envelope transition to 0
\* or to 0.1 (0 when there is none)
StopIndex(transitions, n) ==
  LET stops == {k \in (n + 1)..Len(transitions) :
                  /\ transitions[k].data.kind = "EnvelopeChange"
                  /\ transitions[k].data.to \in {0, One \div 10}}
  IN  IF stops = {} THEN 0 ELSE CHOOSE k \in stops : \A j \in stops : k <= j

C13_NewTransitionsFollowPending ==
  [][(Received /\ Last(applied').msg.type \in {"NoteOn", "NoteOff"})
       => \A k \in (Len(director.transitions) + 1)..Len(director'.transitions) :
             /\ director'.transitions[k].start >= director.step
             /\ \A p \in DOMAIN director.transitions :
                   director'.transitions[k].start >= director.transitions[p].end]_vars

\* a NoteOff was received in the second block while the transitions of the
\* note were pending, and its transition was added after them
C13_Witness ==
  /\ Len(applied) = 2
  /\ StartsNote(applied[1])
  /\ applied[2].msg = NoteOff
  /\ director.step = 200
  /\ Len(director.transitions) > 1
  /\ Last(director.transitions).data.kind = "EnvelopeChange"
  /\ Last(director.transitions).data.to = 0
  /\ Last(director.transitions).start >= director.transitions[1].end

\* the vowel before which note_on calls update_starts: the first initial
\* vowel that is not l, m or n when the initial vowels are played (the note
\* does not carry on the current one), and the main vowel otherwise
OnsetVowel(d, entry) ==
  LET new == SyllableBuild(entry.msg.syllable).syllable
      firsts == {i \in DOMAIN new.initial_vowels :
                   new.initial_vowels[i] \notin {"l", "m", "n"}}
  IN  IF is_continuous(d, new, entry.msg.continue_syllable) \/ firsts = {}
      THEN new.main_vowel
      ELSE new.initial_vowels[CHOOSE i \in firsts : \A j \in firsts : i <= j]

\* the index, among the transitions after the first n, of the shape
\* transition that starts vowel c: the last one towards the shape of c, or
\* the one towards the intermediate shape that add_vowel_transition puts
\* before it
OnsetIndex(transitions, n, c) ==
  LET base(k) == transitions[k].data.to.shape[1].base
      hits == {k \in (n + 1)..Len(transitions) :
                 /\ transitions[k].data.kind = "ShapeChange"
                 /\ base(k) = <<"vowel", c>>}
      last == CHOOSE k \in hits : \A j \in hits : j <= k
  IN  IF /\ last > n + 1
         /\ transitions[last - 1].data.kind = "ShapeChange"
         /\ Len(base(last - 1)) = 3
         /\ base(last - 1)[1] = "between"
         /\ base(last - 1)[3] = c
      THEN last - 1 ELSE last

\* C14: after a NoteOn accepted at step s with minimum vowel start m, the
\* shape transition of the first vowel that is not l, m or n starts at
\* s + max(d, m), d being the delay at which the same note would start that
\* vowel with a minimum vowel start of 0; so it never starts before s + m
\* and starts at s + m when d < m.
C14_VowelStartsAtMinimum ==
  [][(Received /\ StartsNote(Last(applied')))
       => LET e == Last(applied')
              s == director.step
              m == director.min_vowel_start
              n == Len(director.transitions)
              c == OnsetVowel(director, e)
          IN  \E plain \in {note_on([director EXCEPT !.min_vowel_start = 0],
                              e.msg.syllable, e.msg.note_index, e.msg.velocity,
                              e.msg.continue_syllable).d.transitions} :
              \E d \in {plain[OnsetIndex(plain, n, c)].start - s} :
                 director'.transitions[OnsetIndex(director'.transitions, n, c)].start
                    = s + Max(d, m)]_vars

\* with a minimum vowel start of 4800, "da" was received at step 0: the
\* consonant was moved later and the vowel starts at 4800
C14_Witness ==
  /\ Len(applied) = 2
  /\ applied[1].msg = [type |-> "SetMinVowelStartTime", samples |-> 4800]
  /\ applied[2].msg = NoteOn(<<"d", "a">>, 65, One, FALSE)
  /\ director.step = 0
  /\ Len(director.consonants) = 1
  /\ director.consonants[1].start
        > unwrap(get_consonant("d", Some("a"), FALSE, 100)).delay
  /\ director.transitions[OnsetIndex(director.transitions, 0, "a")].start = 4800

(***************************************************************************)
(* SpecVoices: one, three or four voices singing a syllable with a sampled *)
(* and a mono consonant; a message is sent at the start of each of the     *)
(* first two blocks, and the samples are generated until the transitions   *)
(* of the syllable have been dropped.                                      *)
(***************************************************************************)
MaxVoicesSent == 2

MaxVoicesStep == 12000

VoicesMessages ==
  {Reinitialize("Tenor", 3),
   NoteOn(<<"s", "k", "a">>, 64, One, FALSE),
   [type |-> "SetMaxVoiceDelay", max_delay |-> 960],
   NoteOff}

VoicesSend ==
  \E m \in VoicesMessages :
     sent < MaxVoicesSent /\ director.step = 200 * sent /\ SendMessage(m)

VoicesReceive == director.step < MaxVoicesStep /\ ReceiveMessage

VoicesGenerate == director.step < MaxVoicesStep /\ GenerateSample

VoicesNext == VoicesSend \/ VoicesReceive \/ VoicesGenerate

SpecVoices == Init /\ [][VoicesNext]_vars

\* the step just taken is a generate call that ran update_transitions
Evaluated == Generated /\ director.step % 200 = 0

\* the delayed step of voice i in the evaluation just run
DelayedStep(i) == director.step - director.voice_delays[i]

\* C15: update_transitions drops a transition only when the delayed step of
\* every voice has reached its end, and it drops it at the first evaluation
\* whose step is at least end + max_voice_delay; between the evaluations no
\* transition is dropped.
C15_DroppedOnlyWhenEveryVoiceIsDone ==
  [][Generated
       => LET ts == director.transitions
              due == {k \in DOMAIN ts :
                        director.step >= ts[k].end + director.max_voice_delay}
              kept == DOMAIN ts \ due
          IN  IF director.step % 200 = 0
              THEN /\ Len(director'.transitions) = Cardinality(kept)
                   /\ \A k \in kept :
                         LET r == Cardinality({j \in kept : j <= k})
                         IN  /\ director'.transitions[r].start = ts[k].start
                             /\ director'.transitions[r].end = ts[k].end
                             /\ director'.transitions[r].data.kind = ts[k].data.kind
                             /\ director'.transitions[r].data = ts[k].data
                   /\ \A k \in due : \A i \in DOMAIN director.voices :
                         DelayedStep(i) >= ts[k].end
              ELSE director'.transitions = ts]_vars

\* the frequency transition of the note has been dropped, with every voice
\* at the frequency of the note, and later transitions are still pending
C15_Witness ==
  /\ Len(applied) = 1
  /\ StartsNote(applied[1])
  /\ Len(director.voices) = 4
  /\ director.transitions # <<>>
  /\ \A k \in DOMAIN director.transitions :
        director.transitions[k].data.kind # "FrequencyChange"
  /\ \A i \in DOMAIN director.voices :
        director.frequency[i] = NoteFrequency(applied[1].msg.note_index)

\* the transitions of a kind that have started for voice i
StartedFor(i, kind) ==
  {k \in DOMAIN director.transitions :
     /\ director.transitions[k].data.kind = kind
     /\ DelayedStep(i) >= director.transitions[k].start}

\* the last transition of a kind that has started for voice i
LastStarted(i, kind) ==
  director.transitions[CHOOSE k \in StartedFor(i, kind) :
                          \A j \in StartedFor(i, kind) : j <= k]

\* the weight of the end value of transition t for voice i
WeightFor(i, t) == Weight2(DelayedStep(i), t.start, t.end)

\* C16: when several transitions of one kind have started for a voice at an
\* evaluation, the envelope, the shape with the nasal coupling, and the
\* frequency of the voice are the values computed from the most recently
\* scheduled of them.
C16_LastScheduledWins ==
  [][Evaluated
       => \A i \in DOMAIN director.voices :
             /\ StartedFor(i, "EnvelopeChange") # {}
                  => LET t == LastStarted(i, "EnvelopeChange")
                     IN  director'.envelope[i]
                           = Blend(WeightFor(i, t), t.data.from, t.data.to)
             /\ StartedFor(i, "FrequencyChange") # {}
                  => LET t == LastStarted(i, "FrequencyChange")
                     IN  director'.frequency[i]
                           = Blend(WeightFor(i, t), t.data.from, t.data.to)
             /\ StartedFor(i, "ShapeChange") # {}
                  => LET t == LastStarted(i, "ShapeChange")
                     IN  /\ director'.voices[i].shape
                              = [from |-> t.data.from.shape[i],
                                 to |-> t.data.to.shape[i],
                                 weight2 |-> WeightFor(i, t)]
                         /\ director'.voices[i].nasal_coupling
                              = Blend(WeightFor(i, t), t.data.from.nasal_coupling,
                                      t.data.to.nasal_coupling)]_vars

\* the envelope transition of the vowel has ended and the one of the
\* NoteOff has started before it is dropped: the first voice follows the
\* later one, down from the end value of the earlier
C16_Witness ==
  /\ Len(applied) = 2
  /\ StartsNote(applied[1])
  /\ applied[2].msg = NoteOff
  /\ director.step % 200 = 1
  /\ \E k, l \in DOMAIN director.transitions :
        /\ k < l
        /\ director.transitions[k].data.kind = "EnvelopeChange"
        /\ director.transitions[l].data.kind = "EnvelopeChange"
        /\ director.transitions[l].start < director.step - director.voice_delays[1]
        /\ director.transitions[k].data.to > 0
        /\ director.transitions[l].data.to = 0
        /\ director.envelope[1] < director.transitions[k].data.to
        /\ director.envelope[1] > 0

\* C17: a transition with end > start applied to a voice at delayed step j
\* leaves the voice untouched when j < start, gives the start value when
\* j = start, and gives exactly the end value when j >= end.
C17_InterpolationEndpoints ==
  \A k \in DOMAIN director.transitions :
     LET t == director.transitions[k]
         r == apply_transition(director, t)
         value(d, i) ==
           CASE t.data.kind = "EnvelopeChange" -> <<d.envelope[i]>>
             [] t.data.kind = "FrequencyChange" -> <<d.frequency[i]>>
             [] t.data.kind = "ShapeChange" ->
                  <<d.voices[i].shape, d.voices[i].nasal_coupling>>
         at(w, i) ==
           CASE t.data.kind = "EnvelopeChange" -> <<IF w = 0 THEN t.data.from ELSE t.data.to>>
             [] t.data.kind = "FrequencyChange" -> <<IF w = 0 THEN t.data.from ELSE t.data.to>>
             [] t.data.kind = "ShapeChange" ->
                  <<[from |-> t.data.from.shape[i], to |-> t.data.to.shape[i],
                     weight2 |-> w],
                    IF w = 0 THEN t.data.from.nasal_coupling
                    ELSE t.data.to.nasal_coupling>>
     IN  t.end > t.start
           => \A i \in DOMAIN director.voices :
                 /\ DelayedStep(i) < t.start => value(r, i) = value(director, i)
                 /\ DelayedStep(i) = t.start => value(r, i) = at(0, i)
                 /\ DelayedStep(i) >= t.end => value(r, i) = at(1000, i)

\* the frequency transition is over for the third of four voices, which
\* has no delay and has exactly the frequency of the note, and has not
\* started for the second, which has the longest delay
C17_Witness ==
  /\ Len(applied) = 1
  /\ StartsNote(applied[1])
  /\ Len(director.voices) = 4
  /\ director.step % 200 = 1
  /\ \E k \in DOMAIN director.transitions :
        LET t == director.transitions[k]
        IN  /\ t.data.kind = "FrequencyChange"
            /\ t.end > t.start
            /\ director.step - 1 - director.voice_delays[3] >= t.end
            /\ director.step - 1 - director.voice_delays[2] < t.start
            /\ director.frequency[3] = t.data.to
            /\ director.frequency[2] = 0


(***************************************************************************)
(* The consonant queue under SpecVoices.                                   *)
(***************************************************************************)
\* the voices (0-based) that play consonant c: every voice, or the single
\* designated voice of a mono consonant
Players(c) ==
  {i \in 0..(Len(director.voices) - 1) :
      ~c.mono \/ i = Len(director.voices) \div 2}

\* the time elapsed for voice i (0-based) in the generate call being made,
\* counted from the start of consonant c plus the delay of the voice
Elapsed(c, i) == director'.step - (c.start + director.voice_delays[i + 1])

\* the duration of consonant c for voice i: the length of the recorded
\* sample when the voice has one to play, on_time + off_time otherwise
Duration(c, i) ==
  IF Elapsed(c, i) > 0 /\ i < c.sample_indices
  THEN c.sample_length
  ELSE c.on_time + c.off_time

\* C18: the consonant queue loses an element in a generate call only, it is
\* then the head that goes, and for every voice that plays the head the time
\* elapsed since the consonant's start plus the voice's delay is at or past
\* the consonant's duration
C18_HeadRemovedWhenEveryVoiceIsPast ==
  [][(~Received /\ director'.consonants # director.consonants)
       => /\ Generated
          /\ director.consonants # <<>>
          /\ director'.consonants = Tail(director.consonants)
          /\ \A i \in Players(Head(director.consonants)) :
                Elapsed(Head(director.consonants), i)
                   >= Duration(Head(director.consonants), i)]_vars

\* with four voices the first consonant of "ska", which every voice plays
\* from a recorded sample, has gone and the mono consonant after it is now
\* the head of the queue
C18_Witness ==
  /\ Len(applied) = 1
  /\ StartsNote(applied[1])
  /\ Len(director.voices) = 4
  /\ Len(director.consonants) = 1
  /\ director.consonants[1].mono
  /\ director.step > director.consonants[1].start

\* the pan angle pi/4 of the centre of the stereo field, in thousandths of
\* a quarter turn
Centre == One \div 2

\* C19: every queued mono consonant is played by exactly one voice, and that
\* voice is panned to the centre of the stereo field, whatever the number
\* of voices
C19_MonoSungByCentreVoice ==
  \A k \in DOMAIN director.consonants :
     LET c == director.consonants[k]
     IN  c.mono
           => /\ Cardinality(Players(c)) = 1
              /\ \A i \in Players(c) : director.voice_pan[i + 1] = Centre

(***************************************************************************)
(* SpecLookup: the phoneme library of the director has no entry for some   *)
(* of the phonemes (never for 'o' and 'A', which the construction of the   *)
(* director needs), and notes are received at the start of the first       *)
(* blocks of samples.                                                      *)
(***************************************************************************)
MaxLookupSent == 2

MaxLookupStep == 201

LookupAbsent == SUBSET {"e", "m", "t"}

LookupMessages ==
  {NoteOn(<<"a">>, 69, One, FALSE), NoteOn(<<"t", "e">>, 67, One, FALSE),
   NoteOn(<<"a", "m">>, 65, One, FALSE), NoteOn(<<"a", "t">>, 64, One, FALSE),
   NoteOff}

LookupInit ==
  /\ \E c \in InitConfigs : \E a \in LookupAbsent :
        director = [NewDirector(c[1], c[2]) EXCEPT !.phonemes.absent = a]
  /\ queue = <<>>
  /\ output = "none"
  /\ sent = 0
  /\ applied = <<>>
  /\ quiet = OffAfter
  /\ calls = 0
  /\ plugin = PluginDefault
  /\ voice = VoiceDefault

LookupSend ==
  \E m \in LookupMessages :
     /\ sent < MaxLookupSent
     /\ director.step % 200 = 0
     /\ queue = <<>>
     /\ SendMessage(m)

LookupReceive == director.step < MaxLookupStep /\ ReceiveMessage

LookupGenerate == director.step < MaxLookupStep /\ GenerateSample

LookupNext == LookupSend \/ LookupReceive \/ LookupGenerate

SpecLookup == LookupInit /\ [][LookupNext]_vars

\* the message just received asked the library for a phoneme it has no
\* entry for
AbsentRequested ==
  /\ Received
  /\ Lookups(director, Last(applied').msg) \cap director.phonemes.absent # {}

\* the phonemes for which director d has a consonant queued or a transition
\* to a vowel shape pending
ScheduledFor(d) ==
  {d.consonants[k].symbol : k \in DOMAIN d.consonants}
  \cup {d.transitions[k].data.to.shape[1].base[2] :
          k \in {j \in DOMAIN d.transitions :
                   /\ d.transitions[j].data.kind = "ShapeChange"
                   /\ Len(d.transitions[j].data.to.shape) > 0
                   /\ d.transitions[j].data.to.shape[1].base[1] = "vowel"}}

\* C20: a NoteOn or NoteOff that asks the library for a phoneme it has no
\* entry for completes without aborting the audio path, and no transition
\* or consonant is scheduled for that phoneme
C20_AbsentPhonemeIsSkipped ==
  [][AbsentRequested
       => /\ output' # "panic"
          /\ ScheduledFor(director') \cap director.phonemes.absent = {}]_vars

(***************************************************************************)
(* SpecSyllable: Syllable::build on every spelling of up to MaxSyllableLen *)
(* characters over a small alphabet (vowels, among them the sonorants l    *)
(* and m, consonants, the two characters of the affricate dZ, r and the    *)
(* marker '-').  The spelling arrives in a NoteOn that is waiting when the *)
(* first generate call is made; note_on builds the syllable and, when the  *)
(* build succeeds, records it in current_note.                             *)
(***************************************************************************)
MaxSyllableLen == 4

SyllableInit ==
  /\ director = NewDirector("Alto", 4)
  /\ \E s \in UNION {[1..n -> {"a", "e", "i", "l", "m", "A", "k", "r", "d", "Z", "-"}]
                      : n \in 0..MaxSyllableLen} :
        queue = <<[msg |-> NoteOn(s, 69, One, FALSE), id |-> 1, at |-> 0]>>
  /\ output = "none"
  /\ sent = 1
  /\ applied = <<>>
  /\ quiet = OffAfter
  /\ calls = 0
  /\ plugin = PluginDefault
  /\ voice = VoiceDefault

SpecSyllable == SyllableInit /\ [][ProcessMessage]_vars

\* C23 as stated: when the build succeeds there is one main vowel, the
\* five parts put end to end are the spelling with tS and dZ replaced by
\* their symbols and '-' removed, the consonant lists hold consonants only
\* and the vowel lists vowels only
C23_PartsAreTheSpelling ==
  (Len(applied) = 1 /\ applied[1].result = "Ok")
    => LET s == applied[1].msg.syllable
           y == unwrap(director.current_note).syllable
           Kept(c) == c # "-"
       IN  /\ is_some(director.current_note)
           /\ y.main_vowel \in VOWELS
           /\ y.initial_consonants \o y.initial_vowels \o <<y.main_vowel>>
                \o y.final_vowels \o y.final_consonants
              = SelectSeq(ReplacePair(ReplacePair(s, "t", "S", "tS"),
                                      "d", "Z", "dZ"), Kept)
           /\ Range(y.initial_consonants) \subseteq CONSONANTS
           /\ Range(y.final_consonants) \subseteq CONSONANTS
           /\ Range(y.initial_vowels) \subseteq VOWELS
           /\ Range(y.final_vowels) \subseteq VOWELS

\* C23 amended: the same, the spelling being taken after all three
\* replacements of build: tS and dZ by their symbols and every r by 4r, so
\* that an r of the spelling gives the two consonants 4 and r
C23_PartsAreTheSubstitutedSpelling ==
  (Len(applied) = 1 /\ applied[1].result = "Ok")
    => LET s == applied[1].msg.syllable
           y == unwrap(director.current_note).syllable
           Kept(c) == c # "-"
       IN  /\ is_some(director.current_note)
           /\ y.main_vowel \in VOWELS
           /\ y.initial_consonants \o y.initial_vowels \o <<y.main_vowel>>
                \o y.final_vowels \o y.final_consonants
              = SelectSeq(ReplaceR(ReplacePair(ReplacePair(s, "t", "S", "tS"),
                                               "d", "Z", "dZ")), Kept)
           /\ Range(y.initial_consonants) \subseteq CONSONANTS
           /\ Range(y.final_consonants) \subseteq CONSONANTS
           /\ Range(y.initial_vowels) \subseteq VOWELS
           /\ Range(y.final_vowels) \subseteq VOWELS

\* "dZar" has been built: the affricate is one initial consonant, a is the
\* main vowel and the r gives the two final consonants 4 and r
C23_Witness ==
  /\ Len(applied) = 1
  /\ applied[1].result = "Ok"
  /\ applied[1].msg.syllable = <<"d", "Z", "a", "r">>
  /\ is_some(director.current_note)
  /\ unwrap(director.current_note).syllable.initial_consonants = <<"dZ">>
  /\ unwrap(director.current_note).syllable.final_consonants = <<"4", "r">>

C25_NoVowelFails ==
  (Len(applied) = 1
   /\ \A i \in DOMAIN applied[1].msg.syllable :
         applied[1].msg.syllable[i] \notin VOWELS)
    => /\ applied[1].result = "Err"
       /\ director.current_note = None

\* a spelling made of two consonants has been received and refused
C25_Witness ==
  /\ Len(applied) = 1
  /\ applied[1].msg.syllable = <<"k", "d">>
  /\ applied[1].result = "Err"

\* C26: a spelling in which a vowel symbol comes after a consonant that
\* itself comes after a vowel is refused, whatever else it contains
C26_VowelAfterFinalConsonantFails ==
  (Len(applied) = 1
   /\ LET s == applied[1].msg.syllable
      IN  \E i, j, k \in DOMAIN s :
             /\ i < j /\ j < k
             /\ s[i] \in VOWELS /\ s[j] \in CONSONANTS /\ s[k] \in VOWELS)
    => /\ applied[1].result = "Err"
       /\ director.current_note = None

\* "aka" has been received and refused
C26_Witness ==
  /\ Len(applied) = 1
  /\ applied[1].msg.syllable = <<"a", "k", "a">>
  /\ applied[1].result = "Err"

\* C27: a spelling is refused when a '-' comes before any vowel, when a
\* '-' comes after a final consonant (a consonant that follows a vowel),
\* and when it has more than one '-'
C27_MisplacedMarkerFails ==
  (Len(applied) = 1
   /\ LET s == applied[1].msg.syllable
      IN  \/ \E k \in DOMAIN s :
                s[k] = "-" /\ \A i \in 1..(k - 1) : s[i] \notin VOWELS
          \/ \E i, j, k \in DOMAIN s :
                /\ i < j /\ j < k
                /\ s[i] \in VOWELS /\ s[j] \in CONSONANTS /\ s[k] = "-"
          \/ \E j, k \in DOMAIN s : j < k /\ s[j] = "-" /\ s[k] = "-")
    => /\ applied[1].result = "Err"
       /\ director.current_note = None

\* "a-e-", with two markers each after a vowel, has been received and
\* refused
C27_Witness ==
  /\ Len(applied) = 1
  /\ applied[1].msg.syllable = <<"a", "-", "e", "-">>
  /\ applied[1].result = "Err"

\* C28: when a spelling with a '-' is accepted, the symbol just before the
\* '-' is a vowel and is the main vowel, whatever the other vowels are; the
\* vowels before it are the initial vowels and the vowels after the '-' are
\* the final vowels
C28_MarkedVowelIsMain ==
  (Len(applied) = 1 /\ applied[1].result = "Ok")
    => LET s == applied[1].msg.syllable
           y == unwrap(director.current_note).syllable
           IsVowel(c) == c \in VOWELS
       IN  \A p \in DOMAIN s :
              s[p] = "-"
                => /\ p > 1
                   /\ s[p - 1] \in VOWELS
                   /\ y.main_vowel = s[p - 1]
                   /\ y.initial_vowels = SelectSeq(SubSeq(s, 1, p - 2), IsVowel)
                   /\ y.final_vowels = SelectSeq(SubSeq(s, p + 1, Len(s)), IsVowel)

\* "e-a" has been built: the marked e is the main vowel although an a
\* follows, and the a is a final vowel
C28_Witness ==
  /\ Len(applied) = 1
  /\ applied[1].result = "Ok"
  /\ applied[1].msg.syllable = <<"e", "-", "a">>
  /\ unwrap(director.current_note).syllable.main_vowel = "e"
  /\ unwrap(director.current_note).syllable.final_vowels = <<"a">>

\* C29: an accepted spelling without '-' that has two or more vowels, no
\* A among them, and a second vowel other than l, m, n, N and 3 has its
\* second vowel as main vowel, its first vowel as the only initial vowel
\* and the vowels after the second as final vowels
C29_SecondVowelIsMain ==
  (Len(applied) = 1 /\ applied[1].result = "Ok")
    => LET s == applied[1].msg.syllable
           y == unwrap(director.current_note).syllable
           IsVowel(c) == c \in VOWELS
           vowels == SelectSeq(s, IsVowel)
       IN  (/\ \A i \in DOMAIN s : s[i] # "-"
            /\ Len(vowels) >= 2
            /\ \A i \in DOMAIN vowels : vowels[i] # "A"
            /\ vowels[2] \notin {"l", "m", "n", "N", "3"})
             => /\ y.main_vowel = vowels[2]
                /\ y.initial_vowels = <<vowels[1]>>
                /\ y.final_vowels = SubSeq(vowels, 3, Len(vowels))

(***************************************************************************)
(* SpecAccent: SetAccent and a NoteOn on "a" are waiting when the first    *)
(* generate call is made.  The velocity of the NoteOn is taken as it comes *)
(* (an f32 that no code checks), negative values included; the samples of  *)
(* the first two blocks are generated, so that the attack of the note is   *)
(* evaluated once after it has started.                                    *)
(***************************************************************************)
AccentInit ==
  /\ director = NewDirector("Alto", 4)
  /\ \E on \in BOOLEAN, v \in {-One, -(One \div 2), One \div 2, One} :
        queue = <<[msg |-> [type |-> "SetAccent", accent |-> on],
                   id |-> 1, at |-> 0],
                  [msg |-> NoteOn(<<"a">>, 69, v, FALSE), id |-> 2, at |-> 0]>>
  /\ output = "none"
  /\ sent = 2
  /\ applied = <<>>
  /\ quiet = OffAfter
  /\ calls = 0
  /\ plugin = PluginDefault
  /\ voice = VoiceDefault

SpecAccent == AccentInit /\ [][CadenceReceive \/ CadenceGenerate]_vars

\* C21: in every reachable state the envelope of every voice is greater
\* than or equal to 0, whatever the numeric fields of the messages received
C21_EnvelopeNeverNegative ==
  \A i \in DOMAIN director.envelope : director.envelope[i] >= 0

(***************************************************************************)
(* Who sends.  The plugin holds the Sender of the channel in a mutex that  *)
(* two functions lock: ChorusExMachina::process, the audio callback, which *)
(* sends the parameter changes and the notes of the block and then calls   *)
(* Director::generate for every sample of it, and the editor (with         *)
(* Plugin::initialize), which sends Reinitialize only.  The type of a      *)
(* message therefore tells which of the two has sent it.  The Receiver is  *)
(* owned by the Director and read by process_messages alone.               *)
(***************************************************************************)
\* message m is sent by ChorusExMachina::process, the function that calls
\* Director::generate
SentByProcess(m) == m.type # "Reinitialize"

\* C22: the thread that calls generate never puts a message on the channel
\* (every message put there comes from another thread), and a message
\* leaves the channel only when generate receives it
C22_GenerateThreadNeverEnqueues ==
  [][/\ sent' = sent + 1 => ~SentByProcess(Last(queue').msg)
     /\ (sent' = sent /\ queue' # queue) => (Received /\ queue' = Tail(queue))]_vars

\* C30: a NoteOn that starts a note, with velocity v > 0, ends the schedule
\* with the envelope of its main vowel.  With accent on, the last two
\* transitions are a rise to amplification*(1 + 2.5 v), above the
\* amplification, and, starting where the rise ends, a transition of 4000
\* samples from that value back to the amplification; with accent off the
\* last transition is a rise to the amplification.  In both cases the last
\* scheduled envelope value is the amplification of the main vowel.
C30_AccentOvershootsThenDecays ==
  [][(Received /\ StartsNote(Last(applied')) /\ Last(applied').msg.velocity > 0)
       => LET m == Last(applied').msg
              amp == get_amplification(SyllableBuild(m.syllable).syllable.main_vowel)
              peak == (amp * (2 * One + 5 * m.velocity)) \div (2 * One)
              T == director'.transitions
              n == Len(T)
          IN  /\ Last(applied').result = "Ok"
              /\ director'.envelope_after_transitions = amp
              /\ IF director.accent
                 THEN /\ n >= Len(director.transitions) + 2
                      /\ T[n - 1].data.kind = "EnvelopeChange"
                      /\ T[n - 1].data.to = peak
                      /\ peak > amp
                      /\ T[n].start = T[n - 1].end
                      /\ T[n].end = T[n].start + 4000
                      /\ T[n].data = EnvelopeChange(peak, amp)
                 ELSE /\ n >= Len(director.transitions) + 1
                      /\ T[n].data.kind = "EnvelopeChange"
                      /\ T[n].data.to = amp]_vars

\* accent has been switched on and a NoteOn with velocity 0.5 has been
\* received: the schedule ends with the rise to 2.25 and the decay to 1
C30_Witness ==
  /\ director.accent
  /\ Len(applied) = 2
  /\ applied[2].msg.type = "NoteOn"
  /\ applied[2].msg.velocity = One \div 2
  /\ applied[2].result = "Ok"
  /\ Len(director.transitions) >= 2
  /\ Last(director.transitions).data = EnvelopeChange(2250, One)
  /\ Last(director.transitions).end = Last(director.transitions).start + 4000
  /\ director.transitions[Len(director.transitions) - 1].data.to = 2250

(***************************************************************************)
(* SpecFrequency: a director of one voice, of any voice part, receives two *)
(* NoteOn messages on "a" in its first generate call, for any two notes of *)
(* the playable range of the part.  The first sets the frequency of its    *)
(* note, the second glides from there to the frequency of its own note.    *)
(***************************************************************************)
FrequencyInit ==
  /\ \E part \in VoiceParts :
       /\ director = NewDirector(part, 1)
       /\ \E n, m \in PartSettings(part).lowest_note..PartSettings(part).highest_note :
            queue = <<[msg |-> NoteOn(<<"a">>, n, One, FALSE), id |-> 1, at |-> 0],
                      [msg |-> NoteOn(<<"a">>, m, One, FALSE), id |-> 2, at |-> 0]>>
  /\ output = "none"
  /\ sent = 2
  /\ applied = <<>>
  /\ quiet = OffAfter
  /\ calls = 0
  /\ plugin = PluginDefault
  /\ voice = VoiceDefault

SpecFrequency == FrequencyInit /\ [][ProcessMessage]_vars

\* C31: the target frequency of note_on is 440 Hz for note 69 and 880 Hz
\* for note 81, doubles (to the last digit kept) from a note to the note 12
\* above it, and is strictly greater for a higher note of the range; seen
\* on the glide that the second of two notes schedules, from the target of
\* the first to its own
C31_FrequencyOfNote ==
  Len(applied) = 2
    => LET n == applied[1].msg.note_index
           m == applied[2].msg.note_index
           T == director.transitions
           IsGlide(k) == T[k].data.kind = "FrequencyChange"
           g == T[CHOOSE k \in DOMAIN T :
                    IsGlide(k) /\ \A j \in DOMAIN T : IsGlide(j) => j <= k].data
       IN  /\ applied[1].result = "Ok" /\ applied[2].result = "Ok"
           /\ T[1].data = FrequencyChange(g.from, g.from)
           /\ director.frequency_after_transitions = g.to
           /\ n = 69 => g.from = 440 * One
           /\ m = 81 => g.to = 880 * One
           /\ m = n + 12 => Abs(g.to - 2 * g.from) <= 1
           /\ m > n => g.to > g.from
           /\ m = n => g.to = g.from

\* a soprano has gone from note 69 to note 81: the glide runs from 440 Hz
\* to 880 Hz
C31_Witness ==
  /\ Len(applied) = 2
  /\ director.voice_part = "Soprano"
  /\ applied[1].msg.note_index = 69
  /\ applied[2].msg.note_index = 81
  /\ \E k \in DOMAIN director.transitions :
        /\ director.transitions[k].data.kind = "FrequencyChange"
        /\ director.transitions[k].data.from = 440 * One
        /\ director.transitions[k].data.to = 880 * One
  /\ director.frequency_after_transitions = 880 * One

(***************************************************************************)
(* SpecWaveguide: a voice on its own.  Before the first sample any number  *)
(* of vocal shapes is set, each segment closed (0) or of area 1 or 3, with *)
(* nasal coupling 0 or 0.5; then, if the shape is not closed everywhere,   *)
(* generate is called MaxWaveSteps times with no consonant noise, the      *)
(* glottis giving a single pulse or a steady value.                        *)
(***************************************************************************)
MaxWaveSteps == 400

WaveguideInit ==
  /\ director = NewDirector("Soprano", 1)
  /\ queue = <<>>
  /\ output = "none"
  /\ sent = 0
  /\ applied = <<>>
  /\ quiet = OffAfter
  /\ calls = 0
  /\ plugin = PluginDefault
  /\ \E g \in {"pulse", "steady"} :
        voice = VoiceNew(VocalLength, 1, <<1520, 672>>, g)

SetVocalShape ==
  /\ calls = 0
  /\ \E shape \in [1..VocalLength -> {0, One, 3 * One}], c \in {0, One \div 2} :
        voice' = set_vocal_shape(voice, shape, c)
  /\ UNCHANGED <<director, queue, output, sent, applied, quiet, calls, plugin>>

VoiceGenerate ==
  /\ calls < MaxWaveSteps
  /\ \E i \in DOMAIN voice.vocal.area : voice.vocal.area[i] # 0
  /\ voice' = voice_generate(voice, calls, 0, 0).v
  /\ calls' = calls + 1
  /\ UNCHANGED <<director, queue, output, sent, applied, quiet, plugin>>

SpecWaveguide == WaveguideInit /\ [][SetVocalShape \/ VoiceGenerate]_vars

\* C39: the coefficients that the propagation reads (code indices 1 to
\* n-1) depend on the shape alone: they are those of a new waveguide given
\* the same shape; a junction between two open segments has
\* (A[i-1]-A[i])/(A[i-1]+A[i]) unless the segment after it is closed, and
\* the last coefficient is -0.85
C39_ReflectionsFollowTheShape ==
  LET w == voice.vocal
      n == Len(w.k)
  IN  /\ w.k[n] = -850
      /\ \A j \in 2..n : w.k[j] = set_shape(WaveguideNew(n), w.area).k[j]
      /\ \A j \in 2..(n - 1) :
            (w.area[j - 1] # 0 /\ w.area[j] # 0 /\ w.area[j + 1] # 0)
              => w.k[j] * (w.area[j - 1] + w.area[j])
                   = One * (w.area[j - 1] - w.area[j])

\* the largest magnitude allowed to a travelling wave: ten thousand times the
\* excitation
WaveLimit == 10000 * (10 * One)

BlockSamples == 2

MaxEvents == 2

NoteEvents ==
  {[type |-> t, note |-> n, velocity |-> One, value |-> One, timing |-> s] :
     t \in {"NoteOn", "NoteOff"}, n \in {60, 62}, s \in 0..(BlockSamples - 1)}
  \cup {[type |-> "MidiPitchBend", note |-> 0, velocity |-> 0, value |-> One,
         timing |-> s] : s \in 0..(BlockSamples - 1)}

PluginInit ==
  /\ director = NewDirector("Soprano", 1)
  /\ queue = <<>>
  /\ output = "none"
  /\ sent = 0
  /\ applied = <<>>
  /\ quiet = OffAfter
  /\ calls = 0
  /\ voice = VoiceDefault
  /\ \E len \in 0..MaxEvents :
       \E events \in [1..len -> NoteEvents], last_note \in {255, 60},
          phrase \in {<<>>, <<<<"a">>>>, <<<<"a">>, <<"i">>>>} :
         /\ \A i \in 1..(len - 1) : events[i].timing <= events[i + 1].timing
         /\ plugin = [PluginDefault EXCEPT !.events = events,
                                           !.last_note = last_note,
                                           !.phrase = phrase,
                                           !.samples = BlockSamples]

ProcessEvents ==
  /\ plugin.sample_id < plugin.samples
  /\ plugin.sample_id = calls
  /\ LET r == process_sample(plugin)
     IN  /\ plugin' = r.plugin
         /\ queue' = queue \o [i \in 1..Len(r.sends) |->
                                 [msg |-> r.sends[i], id |-> sent + i,
                                  at |-> director.step]]
         /\ sent' = sent + Len(r.sends)
  /\ UNCHANGED <<director, output, applied, quiet, calls, voice>>

SpecPlugin ==
  PluginInit /\ [][ProcessEvents
                     \/ (calls < plugin.sample_id /\ ReceiveMessage)
                     \/ (calls < plugin.sample_id /\ GenerateSample)]_vars

C34_BoundaryPhonemesOnce ==
  [][(/\ Len(applied') = Len(applied) + 1
      /\ applied'[Len(applied')].msg.type \in {"NoteOn", "NoteOff"}
      /\ applied'[Len(applied')].result \in {"Ok", "None"})
       => LET d == director
              m == applied'[Len(applied')].msg
              pushed == [i \in 1..(Len(director'.consonants) - Len(d.consonants))
                           |-> director'.consonants[Len(d.consonants) + i].symbol]
              added == SubSeq(director'.transitions, Len(d.transitions) + 1,
                              Len(director'.transitions))
              to_vowel == SelectSeq(added,
                            LAMBDA t : /\ t.data.kind = "ShapeChange"
                                       /\ t.data.to.shape[1].base[1] = "vowel")
              vowels == [i \in 1..Len(to_vowel) |-> to_vowel[i].data.to.shape[1].base[2]]
              has == is_some(d.current_note)
              final_vowels == IF has THEN unwrap(d.current_note).syllable.final_vowels
                              ELSE <<>>
              final_consonants ==
                IF has THEN unwrap(d.current_note).syllable.final_consonants ELSE <<>>
              accepted == /\ m.type = "NoteOn"
                          /\ m.note_index >= d.lowest_note
                          /\ m.note_index <= d.highest_note
              new == SyllableBuild(m.syllable).syllable
              adjacent == IF Len(new.initial_vowels) > 0 THEN new.initial_vowels[1]
                          ELSE new.main_vowel
          IN  /\ SubSeq(director'.consonants, 1, Len(d.consonants)) = d.consonants
              /\ ~accepted => pushed = final_consonants /\ vowels = final_vowels
              /\ (accepted /\ ~is_continuous(d, new, m.continue_syllable))
                   => /\ pushed = final_consonants \o new.initial_consonants
                      /\ vowels = final_vowels
                                    \o Repeat(adjacent, Len(new.initial_consonants))
                                    \o new.initial_vowels \o <<new.main_vowel>>]_vars

\* a note with a final consonant has been ended by a NoteOn whose syllable
\* has an initial consonant: both consonants are queued, the final one first
C34_Witness ==
  /\ Len(applied) = 2
  /\ applied[1].msg.type = "NoteOn" /\ applied[1].msg.syllable = <<"k", "e", "d">>
  /\ applied[2].msg.type = "NoteOn" /\ applied[2].msg.syllable = <<"s", "a">>
  /\ applied[2].result = "Ok"
  /\ \E i \in 1..(Len(director.consonants) - 1) :
        /\ director.consonants[i].symbol = "d"
        /\ director.consonants[i + 1].symbol = "s"

(***************************************************************************)
(* SpecShift: as SpecPhrase, with a minimum vowel start long enough to     *)
(* move the entries of a note that follows or ends a sounding one.         *)
(***************************************************************************)
ShiftMessages ==
  {NoteOn(<<"a", "i", "m">>, 67, One, FALSE),
   NoteOn(<<"d", "a">>, 65, One, FALSE),
   NoteOn(<<"a", "t">>, 62, One, FALSE),
   NoteOn(<<"a">>, 100, One, FALSE),
   NoteOff,
   [type |-> "SetMinVowelStartTime", samples |-> 20000]}

ShiftInit == Init /\ director.voice_part = "Soprano"

SpecShift ==
  ShiftInit /\ [][(\E m \in ShiftMessages : /\ sent < MaxPhraseSent
                                        /\ director.step % 200 = 0
                                        /\ queue = <<>>
                                        /\ SendMessage(m))
                     \/ PhraseReceive \/ PhraseGenerate]_vars

\* C35: a NoteOn or NoteOff that is processed only appends to the schedule.
\* The transitions and consonants that were pending keep their place and
\* every field; the entries it adds are those the same message adds with a
\* minimum vowel start of 0, all moved later by one offset (0 when nothing
\* is shifted), transitions in start and end, consonants in start.
C35_ScheduleOnlyAppended ==
  [][(/\ Len(applied') = Len(applied) + 1
      /\ applied'[Len(applied')].msg.type \in {"NoteOn", "NoteOff"}
      /\ applied'[Len(applied')].result \in {"Ok", "None"})
       => LET d == director
              m == applied'[Len(applied')].msg
              nt == Len(d.transitions)
              nc == Len(d.consonants)
              plain == process_message([d EXCEPT !.min_vowel_start = 0], m).d
          IN  /\ Len(director'.transitions) >= nt
              /\ Len(director'.consonants) >= nc
              /\ SubSeq(director'.transitions, 1, nt) = d.transitions
              /\ SubSeq(director'.consonants, 1, nc) = d.consonants
              /\ Len(plain.transitions) = Len(director'.transitions)
              /\ Len(plain.consonants) = Len(director'.consonants)
              /\ \E offset \in {0} \cup {director'.transitions[i].start
                                          - plain.transitions[i].start :
                                        i \in (nt + 1)..Len(plain.transitions)} :
                   /\ offset >= 0
                   /\ offset <= d.min_vowel_start
                   /\ \A i \in (nt + 1)..Len(plain.transitions) :
                        director'.transitions[i]
                          = [plain.transitions[i] EXCEPT !.start = @ + offset,
                                                         !.end = @ + offset]
                   /\ \A i \in (nc + 1)..Len(plain.consonants) :
                        director'.consonants[i]
                          = [plain.consonants[i] EXCEPT !.start = @ + offset]]_vars

\* "aim" is sounding with transitions pending when the minimum vowel start
\* is set to 20000 and NoteOff is received, all at step 200: the pending
\* transitions are as before, the transition to the final vowel m was moved
\* later and the envelope starts to fall 20000 samples after the message
C35_Witness ==
  /\ Len(applied) = 3
  /\ applied[1].msg = NoteOn(<<"a", "i", "m">>, 67, One, FALSE)
  /\ applied[2].msg = [type |-> "SetMinVowelStartTime", samples |-> 20000]
  /\ applied[3].msg = NoteOff
  /\ director.step = 200
  /\ director.transitions[1].start < 200
  /\ director.transitions[1].end > 200
  /\ \E i \in DOMAIN director.transitions :
        /\ director.transitions[i].data.kind = "ShapeChange"
        /\ director.transitions[i].data.to.shape[1].base = <<"vowel", "m">>
        /\ director.transitions[i].start > 10000
        /\ director.transitions[i].end <= 200 + 20000
  /\ director.transitions[Len(director.transitions)].data.kind = "EnvelopeChange"
  /\ director.transitions[Len(director.transitions)].data.to = 0
  /\ director.transitions[Len(director.transitions)].start = 200 + 20000

\* C36: whenever no transition is queued, every voice has the envelope and
\* the frequency that the transitions scheduled last were to end at (both 0
\* after construction and after Reinitialize)
C36_RestsAtScheduledValues ==
  director.transitions = <<>>
    => /\ \A i \in DOMAIN director.envelope :
            director.envelope[i] = director.envelope_after_transitions
       /\ \A i \in DOMAIN director.frequency :
            director.frequency[i] = director.frequency_after_transitions

\* a note was started and every transition has run out: the four voices
\* sound at the envelope and the frequency of the note
C36_Witness ==
  /\ director.transitions = <<>>
  /\ Len(applied) > 0
  /\ applied[Len(applied)].msg.type = "NoteOn"
  /\ applied[Len(applied)].result = "Ok"
  /\ Len(director.envelope) = 4
  /\ director.envelope_after_transitions > 0
  /\ director.frequency_after_transitions > 0
  /\ \A i \in DOMAIN director.envelope : director.envelope[i] > 0

\* C37: in every state each of voice_delays, voice_pan, envelope, frequency
\* and shape_after_transitions has one entry for each voice, and every
\* queued shape transition has one start shape and one end shape for each
\* voice
C37_OneEntryPerVoice ==
  LET n == Len(director.voices)
  IN  /\ Len(director.voice_delays) = n
      /\ Len(director.voice_pan) = n
      /\ Len(director.envelope) = n
      /\ Len(director.frequency) = n
      /\ Len(director.shape_after_transitions) = n
      /\ \A k \in DOMAIN director.transitions :
            director.transitions[k].data.kind = "ShapeChange"
              => /\ Len(director.transitions[k].data.from.shape) = n
                 /\ Len(director.transitions[k].data.to.shape) = n

\* the plugin's director of one voice was reinitialized with four voices
\* and then started a note: the shape transitions queued carry four start
\* shapes and four end shapes
C37_Witness ==
  /\ Len(applied) = 2
  /\ applied[1].msg = Reinitialize("Soprano", 4)
  /\ applied[1].part = "Soprano"
  /\ applied[2].msg.type = "NoteOn"
  /\ applied[2].result = "Ok"
  /\ Len(director.voices) = 4
  /\ \E k \in DOMAIN director.transitions :
        /\ director.transitions[k].data.kind = "ShapeChange"
        /\ Len(director.transitions[k].data.from.shape) = 4

\* the velocities a NoteOn is compared over
Velocities == {0, One \div 4, One \div 2, One}

\* C38: with accent disabled the velocity of a NoteOn has no influence: the
\* director after the message is the one that the same message with any
\* other velocity gives from the same state, schedule included, and the
\* result is the same
C38_VelocityIgnoredWithoutAccent ==
  [][(/\ Len(applied') = Len(applied) + 1
      /\ applied'[Len(applied')].msg.type = "NoteOn"
      /\ applied'[Len(applied')].result # "Panic"
      /\ ~director.accent)
       => \A v \in Velocities :
             LET r == process_message(director,
                        [applied'[Len(applied')].msg EXCEPT !.velocity = v])
             IN  /\ r.d = director'
                 /\ r.result = applied'[Len(applied')].result]_vars

\* with accent disabled a NoteOn of velocity 0.5 has started a note while
\* another was sounding
C38_Witness ==
  /\ Len(applied) = 2
  /\ applied[1].msg.type = "NoteOn" /\ applied[1].result = "Ok"
  /\ applied[2].msg.type = "NoteOn" /\ applied[2].result = "Ok"
  /\ applied[2].msg.velocity = One \div 2
  /\ ~director.accent
  /\ is_some(director.current_note)
  /\ director.envelope_after_transitions > 0

\* C40: after Reinitialize(part, n) is processed the director has no
\* current note, no transition and no consonant queued, n voices each with
\* envelope 0, the playable range of part and no pitch bend, whereas volume,
\* vibrato, intensity, brightness, consonant volume, attack rate, release
\* rate, accent, stereo width, minimum vowel start and maximum voice delay
\* are what they were
C40_ReinitializeKeepsSettings ==
  [][(/\ Len(applied') = Len(applied) + 1
      /\ applied'[Len(applied')].msg.type = "Reinitialize")
       => LET m == applied'[Len(applied')].msg
              d == director
              e == director'
          IN  /\ e.current_note = None
              /\ e.transitions = <<>>
              /\ e.consonants = <<>>
              /\ Len(e.voices) = m.voice_count
              /\ e.envelope = Repeat(0, m.voice_count)
              /\ e.voice_part = m.voice_part
              /\ e.lowest_note = PartSettings(m.voice_part).lowest_note
              /\ e.highest_note = PartSettings(m.voice_part).highest_note
              /\ e.bend = One
              /\ e.volume = d.volume
              /\ e.vibrato = d.vibrato
              /\ e.intensity = d.intensity
              /\ e.brightness = d.brightness
              /\ e.consonant_volume = d.consonant_volume
              /\ e.attack_rate = d.attack_rate
              /\ e.release_rate = d.release_rate
              /\ e.accent = d.accent
              /\ e.stereo_width = d.stereo_width
              /\ e.min_vowel_start = d.min_vowel_start
              /\ e.max_voice_delay = d.max_voice_delay]_vars

\* the player's alto director, with the pitch bent, was reinitialized as
\* four sopranos: the range is the soprano's and the bend is gone
C40_Witness ==
  /\ Len(applied) = 2
  /\ applied[1].msg.type = "SetPitchBend"
  /\ applied[1].part = "Alto"
  /\ applied[2].msg = Reinitialize("Soprano", 4)
  /\ director.voice_part = "Soprano"
  /\ director.lowest_note = 57
  /\ director.bend = One
  /\ Len(director.voices) = 4
=============================================================================
